---- MODULE Spec2Model ----
(***************************************************************************)
(* nix-disk: extraction of fileSystems declarations from                   *)
(* hardware-configuration.nix, enumeration of disks, drift detection and   *)
(* regeneration of the configuration text.                                 *)
(*                                                                         *)
(* A text is a sequence of tokens.  Every character the code searches for  *)
(* on its own (the quote, the closing brace, the semicolon, the newline,   *)
(* the space) is one token; the two words the code searches for,           *)
(* `fileSystems.' and `device = ', are one token each; every other token   *)
(* is a word that contains none of these.  The text a sequence stands for  *)
(* is the concatenation of its tokens.                                     *)
(***************************************************************************)
EXTENDS Integers, Sequences, FiniteSets, TLC

VARIABLES
    \* the text functions: their inputs, their results, the step reached
    nix_config, disks, generated, regenerated, parsed_in, parsed_out, pc,
    \* the enumeration: the machine it reads, its result
    machine, enumerated,
    \* the drift detection: its first input (the second is disks), its result
    configured, missing,
    \* the application: the configuration file, the loaded configuration, the
    \* window, the dialog of missing partitions, the two banners, the rebuilds
    \* started by the saves, the status files in /tmp
    config_file, hardware_config, window, dialog, rebuild_banner,
    rebuild_error_banner, rebuilds, status_files,
    \* history: the mount points that a written configuration declared and
    \* that the operator has not removed since
    saved_mounts,
    \* the option table: the filesystem type and the mount point asked for,
    \* the options returned
    fs_type_in, mount_point_in, fs_options,
    \* the two scanning loops of the regeneration, one iteration at a time:
    \* the text they work on, the position of the first, the blocks it keeps
    scan_config, scan_pos, scan_preserved

textVars == <<nix_config, disks, generated, regenerated, parsed_in, parsed_out, pc>>
enumVars == <<machine, enumerated>>
driftVars == <<configured, missing>>

appVars == <<config_file, hardware_config, window, dialog, rebuild_banner,
             rebuild_error_banner, rebuilds, status_files, saved_mounts>>

optionVars == <<fs_type_in, mount_point_in, fs_options>>

scanVars == <<scan_config, scan_pos, scan_preserved>>

vars == <<textVars, enumVars, driftVars, appVars, optionVars, scanVars>>

-----------------------------------------------------------------------------
(* Option and Result values *)

None == [some |-> FALSE]
Some(v) == [some |-> TRUE, val |-> v]
Ok(v) == [kind |-> "Ok", val |-> v]
Err(m) == [kind |-> "Err", msg |-> m]
Panic(m) == [kind |-> "Panic", msg |-> m]

-----------------------------------------------------------------------------
(* Tokens *)

QUOTE == "\""
NL == "\n"
SP == " "
FS_WORD == "fileSystems."
DEVICE_WORD == "device = "

\* the pattern "fileSystems.\"" of both passes of the writer
Marker == <<FS_WORD, QUOTE>>
\* the pattern "};" of the writer
BlockClose == <<"}", ";">>

IsWhitespace(c) == c \in {NL, SP, "\t"}

Min(S) == CHOOSE x \in S : \A y \in S : x <= y

\* pat occurs in t at index i
MatchAt(t, pat, i) ==
    /\ i >= 1
    /\ i + Len(pat) - 1 <= Len(t)
    /\ \A k \in 1..Len(pat) : t[i + k - 1] = pat[k]

\* str::find on the suffix t[from..]: the least index >= from where pat
\* occurs, as an index of t; 0 stands for None
Find(t, pat, from) ==
    LET hits == {i \in from..(Len(t) - Len(pat) + 1) : MatchAt(t, pat, i)}
    IN  IF hits = {} THEN 0 ELSE Min(hits)

\* str::trim_end
RECURSIVE trim_end(_)
trim_end(t) ==
    IF t # <<>> /\ IsWhitespace(t[Len(t)])
    THEN trim_end(SubSeq(t, 1, Len(t) - 1))
    ELSE t

RECURSIVE Concat(_)
Concat(ss) == IF ss = <<>> THEN <<>> ELSE Head(ss) \o Concat(Tail(ss))

Contains(s, x) == \E i \in 1..Len(s) : s[i] = x

SeqElems(s) == { s[i] : i \in 1..Len(s) }

-----------------------------------------------------------------------------
(* disk_writer.rs *)

CRITICAL_MOUNT_POINTS ==
    { <<"/">>, <<"/", "boot">>, <<"/", "boot", "/", "efi">>,
      <<"/", "nix">>, <<"/", "nix", "/", "store">> }

is_critical_mount_point(mount_point) == mount_point \in CRITICAL_MOUNT_POINTS

\* the text between the marker and the next quote of the block
extract_mount_point(block) ==
    LET start == Find(block, Marker, 1) IN
    IF start = 0 THEN None
    ELSE LET end == Find(block, <<QUOTE>>, start + Len(Marker)) IN
         IF end = 0 THEN None
         ELSE Some(SubSeq(block, start + Len(Marker), end - 1))

\* first pass: the blocks with a critical key, in text order
RECURSIVE PreservePass(_, _, _)
PreservePass(config, pos, preserved_blocks) ==
    LET absolute_pos == Find(config, Marker, pos) IN
    IF absolute_pos = 0 THEN preserved_blocks
    ELSE LET close_pos == Find(config, BlockClose, absolute_pos) IN
         IF close_pos = 0 THEN preserved_blocks
         ELSE LET block == SubSeq(config, absolute_pos, close_pos + 1)
                  mount_point == extract_mount_point(block)
              IN  PreservePass(config, close_pos + 2,
                      IF mount_point.some /\ is_critical_mount_point(mount_point.val)
                      THEN Append(preserved_blocks, block)
                      ELSE preserved_blocks)

\* second pass: remove every block, searching again from the start each time
RECURSIVE RemovePass(_)
RemovePass(config) ==
    LET pos == Find(config, Marker, 1) IN
    IF pos = 0 THEN config
    ELSE LET close_pos == Find(config, BlockClose, pos) IN
         IF close_pos = 0 THEN config
         ELSE RemovePass(SubSeq(config, 1, pos - 1)
                         \o SubSeq(config, close_pos + 2, Len(config)))

\* a bug that pops the last character whatever it is
DropLastCharacter(config) ==
    LET trimmed == trim_end(config) IN
    IF trimmed # <<>> THEN SubSeq(trimmed, 1, Len(trimmed) - 1) ELSE trimmed

\* trim_end, then pop one closing brace
DropClosingBrace(config) ==
    LET trimmed == trim_end(config) IN
    IF trimmed # <<>> /\ trimmed[Len(trimmed)] = "}"
    THEN SubSeq(trimmed, 1, Len(trimmed) - 1)
    ELSE trimmed

RECURSIVE RestorePreserved(_)
RestorePreserved(preserved_blocks) ==
    IF preserved_blocks = <<>> THEN <<>>
    ELSE <<NL, SP, SP>> \o Head(preserved_blocks)
         \o RestorePreserved(Tail(preserved_blocks))

RECURSIVE QuoteJoin(_)
QuoteJoin(options) ==
    IF options = <<>> THEN <<>>
    ELSE <<QUOTE, Head(options), QUOTE>>
         \o (IF Len(options) > 1 THEN <<SP>> ELSE <<>>)
         \o QuoteJoin(Tail(options))

\* a bug that keeps the show-in-manager option on every mount point
OptionsWithShow(fs_type, mount_point) ==
    <<"[", SP>>
    \o QuoteJoin(IF fs_type = <<"btrfs">>
                     THEN <<"defaults", "nofail", "x-gvfs-show", "compress=zstd">>
                 ELSE IF fs_type \in {<<"ntfs">>, <<"ntfs3">>}
                     THEN <<"defaults", "nofail", "x-gvfs-show",
                            "uid=1000", "gid=100", "umask=022">>
                 ELSE <<"defaults", "nofail", "x-gvfs-show">>)
    \o <<SP, "]">>

get_filesystem_options(fs_type, mount_point) ==
    LET table == IF fs_type = <<"btrfs">>
                     THEN <<"defaults", "nofail", "x-gvfs-show", "compress=zstd">>
                 ELSE IF fs_type \in {<<"ntfs">>, <<"ntfs3">>}
                     THEN <<"defaults", "nofail", "x-gvfs-show",
                            "uid=1000", "gid=100", "umask=022">>
                 ELSE <<"defaults", "nofail", "x-gvfs-show">>
        options == IF mount_point = <<"/">> \/ mount_point = <<"/", "boot">>
                   THEN SelectSeq(table, LAMBDA opt : opt # "x-gvfs-show")
                   ELSE table
    IN  <<"[", SP>> \o QuoteJoin(options) \o <<SP, "]">>

\* the block pushed for one mount point of a partition
GeneratedBlock(mount_point, partition, fs_type) ==
    <<NL, SP, SP, FS_WORD, QUOTE>> \o mount_point \o <<QUOTE, SP, "=", SP, "{", NL>>
    \o <<SP, SP, SP, SP, DEVICE_WORD, QUOTE>> \o partition.uuid_path \o <<QUOTE, ";", NL>>
    \o <<SP, SP, SP, SP, "fsType", SP, "=", SP, QUOTE>> \o fs_type \o <<QUOTE, ";", NL>>
    \o <<SP, SP, SP, SP, "options", SP, "=", SP>>
    \o get_filesystem_options(fs_type, mount_point)
    \o <<";", NL, SP, SP, "}", ";">>

\* a bug that writes a block for the critical mount points too
RECURSIVE GenerateEveryMountPoint(_, _, _)
GenerateEveryMountPoint(mount_points, partition, fs_type) ==
    IF mount_points = <<>> THEN <<>>
    ELSE GeneratedBlock(Head(mount_points), partition, fs_type)
         \o GenerateEveryMountPoint(Tail(mount_points), partition, fs_type)

RECURSIVE GenerateMountPoints(_, _, _)
GenerateMountPoints(mount_points, partition, fs_type) ==
    IF mount_points = <<>> THEN <<>>
    ELSE (IF is_critical_mount_point(Head(mount_points)) THEN <<>>
          ELSE GeneratedBlock(Head(mount_points), partition, fs_type))
         \o GenerateMountPoints(Tail(mount_points), partition, fs_type)

RECURSIVE GeneratePartitions(_)
GeneratePartitions(partitions) ==
    IF partitions = <<>> THEN <<>>
    ELSE LET partition == Head(partitions)
             fs_type == IF partition.fs_type.some THEN partition.fs_type.val
                        ELSE <<"auto">>
         IN  (IF partition.mount_points = <<>> THEN <<>>
              ELSE GenerateMountPoints(partition.mount_points, partition, fs_type))
             \o GeneratePartitions(Tail(partitions))

\* a bug that writes the disks from the last to the first
RECURSIVE GenerateDisksReversed(_)
GenerateDisksReversed(ds) ==
    IF ds = <<>> THEN <<>>
    ELSE GenerateDisksReversed(Tail(ds)) \o GeneratePartitions(Head(ds).partitions)

RECURSIVE GenerateDisks(_)
GenerateDisks(ds) ==
    IF ds = <<>> THEN <<>>
    ELSE GeneratePartitions(Head(ds).partitions) \o GenerateDisks(Tail(ds))

get_nix_disks_config(config, ds) ==
    LET preserved_blocks == PreservePass(config, 1, <<>>)
        removed == RemovePass(config)
    IN  Ok(DropClosingBrace(removed)
           \o RestorePreserved(preserved_blocks)
           \o GenerateDisks(ds)
           \o <<NL, NL, "}">>)

-----------------------------------------------------------------------------
(* models/partition.rs, models/disk.rs *)

\* format!("/dev/disk/by-uuid/{}", uuid) and format!("/dev/{}", disk_name)
UuidPath(uuid) == <<"/dev/disk/by-uuid/", uuid>>
DevPath(name) == <<"/dev/">> \o name

Partition(path, uuid_path, mount_points, fs_type, size, label) ==
    [path |-> path, uuid_path |-> uuid_path, mount_points |-> mount_points,
     fs_type |-> fs_type, size |-> size, label |-> label]

\* a bug that pushes without looking at the list
PushMountPoint(partition, mount_point) ==
    [partition EXCEPT !.mount_points = Append(@, mount_point)]

add_mount_point(partition, mount_point) ==
    IF Contains(partition.mount_points, mount_point) THEN partition
    ELSE [partition EXCEPT !.mount_points = Append(@, mount_point)]

remove_mount_point(partition, mount_point) ==
    [partition EXCEPT !.mount_points = SelectSeq(@, LAMBDA mp : mp # mount_point)]

Disk(path, partitions, size) ==
    [path |-> path, partitions |-> partitions, size |-> size]

add_partition(disk, partition) ==
    [disk EXCEPT !.partitions = Append(@, partition)]

-----------------------------------------------------------------------------
(* disk_parser.rs: parse_nix_filesystems *)

\* the lazy group (.+?) that starts at index from and is closed by the
\* pattern close: the index where close matches, after at least one
\* character, none of them a newline; 0 when there is no match
LazyClose(t, from, close) ==
    LET j == Find(t, close, from + 1) IN
    IF j = 0 THEN 0
    ELSE IF \E k \in from..(j - 1) : t[k] = NL THEN 0 ELSE j

\* fileSystems\."(.+?)" matched at index i: the index of the closing quote
FsMatchEnd(t, i) ==
    IF MatchAt(t, Marker, i) THEN LazyClose(t, i + Len(Marker), <<QUOTE>>) ELSE 0

\* the leftmost match of fs_regex at or after from (0: none)
FsFind(t, from) ==
    LET hits == {i \in from..Len(t) : FsMatchEnd(t, i) # 0}
    IN  IF hits = {} THEN 0 ELSE Min(hits)

\* fs_regex.find_iter: the starts of the successive non-overlapping matches
RECURSIVE fs_find_iter(_, _)
fs_find_iter(t, from) ==
    LET i == FsFind(t, from) IN
    IF i = 0 THEN <<>>
    ELSE <<i>> \o fs_find_iter(t, FsMatchEnd(t, i) + 1)

\* fs_regex.captures(group).get(1)
fs_captures(group) ==
    LET i == FsFind(group, 1) IN
    IF i = 0 THEN None
    ELSE Some(SubSeq(group, i + Len(Marker), FsMatchEnd(group, i) - 1))

DevicePat == <<DEVICE_WORD, QUOTE>>

\* device = "(.+?)"; matched at index i: the index of the closing quote
DeviceMatchEnd(t, i) ==
    IF MatchAt(t, DevicePat, i)
    THEN LazyClose(t, i + Len(DevicePat), <<QUOTE, ";">>)
    ELSE 0

\* device_regex.captures(group).get(1)
device_captures(group) ==
    LET hits == {i \in 1..Len(group) : DeviceMatchEnd(group, i) # 0} IN
    IF hits = {} THEN None
    ELSE LET i == Min(hits)
         IN  Some(SubSeq(group, i + Len(DevicePat), DeviceMatchEnd(group, i) - 1))

\* the symlink resolution of a device reference: links maps the references
\* that exist and are symbolic links to the canonical path of their target
ResolveDevice(links, partition_uuid_path) ==
    IF partition_uuid_path \in DOMAIN links
    THEN links[partition_uuid_path]
    ELSE partition_uuid_path

\* a bug that takes a default for a missing device field instead of failing
BlockFieldsLenient(nix_group) ==
    LET mount_point == fs_captures(nix_group)
        device == device_captures(nix_group)
    IN  IF ~mount_point.some THEN Err("Failed to extract mount point")
        ELSE Ok([mount_point |-> mount_point.val,
                 device |-> IF device.some THEN device.val ELSE <<>>])

\* the two sub-fields of a block, each taken with `?'
BlockFields(nix_group) ==
    LET mount_point == fs_captures(nix_group)
        device == device_captures(nix_group)
    IN  IF ~mount_point.some THEN Err("Failed to extract mount point")
        ELSE IF ~device.some THEN Err("Failed to extract device path")
        ELSE Ok([mount_point |-> mount_point.val, device |-> device.val])

\* a bug that inserts a new Partition over the one the path already has
InsertOverExisting(partitions, partition_path, partition_uuid_path, mount_point) ==
    [p \in DOMAIN partitions \cup {partition_path} |->
        IF p # partition_path THEN partitions[p]
        ELSE Partition(partition_path, partition_uuid_path,
                       <<mount_point>>, None, 0, None)]

\* partitions.entry(device).and_modify(add_mount_point).or_insert(new)
InsertPartition(partitions, partition_path, partition_uuid_path, mount_point) ==
    [p \in DOMAIN partitions \cup {partition_path} |->
        IF p # partition_path THEN partitions[p]
        ELSE IF partition_path \in DOMAIN partitions
        THEN add_mount_point(partitions[partition_path], mount_point)
        ELSE Partition(partition_path, partition_uuid_path,
                       <<mount_point>>, None, 0, None)]

\* the loop over the matches; partitions is the HashMap built so far
RECURSIVE ParseLoop(_, _, _, _)

\* the rest of an iteration, once the two sub-fields are taken
ParseFields(config, links, starts, partitions, fields) ==
    IF fields.kind = "Err" THEN fields
    ELSE ParseLoop(config, links, Tail(starts),
                   InsertPartition(partitions,
                                   ResolveDevice(links, fields.val.device),
                                   fields.val.device, fields.val.mount_point))

\* the rest of an iteration, once the closing brace is looked for
ParseBlock(config, links, starts, partitions, brace) ==
    IF brace = 0
    THEN \* end = len + start + 1 is past the end of the text: the slice panics
         Panic("byte index out of range")
    ELSE ParseFields(config, links, starts, partitions,
                     BlockFields(SubSeq(config, Head(starts), brace)))

ParseLoop(config, links, starts, partitions) ==
    IF starts = <<>> THEN Ok(partitions)
    ELSE ParseBlock(config, links, starts, partitions,
                    Find(config, <<"}">>, Head(starts)))

parse_nix_filesystems(config, links) ==
    ParseLoop(config, links, fs_find_iter(config, 1), <<>>)

-----------------------------------------------------------------------------
(* disk_parser.rs: get_disks, parse_partition, find_missing_partitions *)

\* str::starts_with, on paths and names
starts_with(s, prefix) ==
    Len(prefix) <= Len(s) /\ SubSeq(s, 1, Len(prefix)) = prefix

\* the output of a command: the command could not be run, or its stdout
NotRunnable == [ran |-> FALSE]
Stdout(out) == [ran |-> TRUE, out |-> out]

\* KEY="([^"]+)" on the output of blkid, a sequence of KEY="value" pairs:
\* the value of the first pair whose key ends with the word and whose value
\* is not empty
BlkidCapture(blkid_str, word) ==
    LET hits == { i \in 1..Len(blkid_str) :
                    /\ blkid_str[i].key[Len(blkid_str[i].key)] = word
                    /\ blkid_str[i].val # "" }
    IN  IF hits = {} THEN None ELSE Some(blkid_str[Min(hits)].val)

\* parse_partition: the result and the map it leaves behind
parse_partition(partition_path, size, partitions_map, blkid) ==
    IF ~blkid.ran
    THEN [result |-> Err("Failed to run blkid"), map |-> partitions_map]
    ELSE
    LET type == BlkidCapture(blkid.out, "TYPE")
        fs_type == IF type.some THEN Some(<<type.val>>) ELSE None
        label == BlkidCapture(blkid.out, "LABEL")
        uuid == BlkidCapture(blkid.out, "UUID")
    IN
    IF partition_path \in DOMAIN partitions_map
    THEN LET existing_partition ==
                 [partitions_map[partition_path] EXCEPT
                     !.fs_type = fs_type, !.label = label, !.size = size]
         IN  [result |-> Ok(Some(existing_partition)),
              map |-> [partitions_map EXCEPT ![partition_path] = existing_partition]]
    ELSE IF uuid.some
    THEN [result |-> Ok(Some(Partition(partition_path, UuidPath(uuid.val), <<>>,
                                       fs_type, size, label))),
          map |-> partitions_map]
    ELSE [result |-> Ok(None), map |-> partitions_map]

\* the index of the first disk whose path is a proper prefix of disk_path
\* (0: none)
ParentIndex(ds, disk_path) ==
    LET hits == { i \in 1..Len(ds) :
                    starts_with(disk_path, ds[i].path) /\ disk_path # ds[i].path }
    IN  IF hits = {} THEN 0 ELSE Min(hits)

\* a bug that takes every entry for a new disk
ClassifyAllDisks(ds, disk_path) == 0

\* the disk an entry is a partition of (0: the entry is a new disk)
Classify(ds, disk_path) == ParentIndex(ds, disk_path)

\* the loop over the lines of /proc/partitions
RECURSIVE DisksLoop(_, _, _, _)
DisksLoop(lines, lsblk_runs, ds, partitions) ==
    IF lines = <<>> THEN Ok(ds)
    ELSE
    LET line == Head(lines)
        disk_name == line.name
        disk_path == DevPath(disk_name)
    IN
    IF line.fields < 4 THEN DisksLoop(Tail(lines), lsblk_runs, ds, partitions)
    ELSE IF disk_name[1] = "zram" \/ disk_name[1] = "sr"
    THEN DisksLoop(Tail(lines), lsblk_runs, ds, partitions)
    ELSE IF ~lsblk_runs THEN Err("Failed to run lsblk")
    ELSE
    LET disk_size == IF line.lsblk.parses THEN line.lsblk.size ELSE 0
        parent == Classify(ds, disk_path)
    IN
    IF parent # 0
    THEN LET parsed == parse_partition(disk_path, disk_size, partitions, line.blkid)
         IN  IF parsed.result.kind = "Err" THEN parsed.result
             ELSE DisksLoop(Tail(lines), lsblk_runs,
                            IF parsed.result.val.some
                            THEN [ds EXCEPT ![parent] =
                                      add_partition(@, parsed.result.val.val)]
                            ELSE ds,
                            parsed.map)
    ELSE DisksLoop(Tail(lines), lsblk_runs,
                   Append(ds, Disk(disk_path, <<>>, disk_size)), partitions)

\* the host: /proc/partitions (readable or not, its lines after the two
\* header lines), whether lsblk and blkid can be run, and the symbolic links
\* of /dev/disk
get_disks(config, host) ==
    LET parsed == IF config.some
                  THEN parse_nix_filesystems(config.val, host.links)
                  ELSE Ok(<<>>)
    IN
    IF parsed.kind # "Ok" THEN parsed
    ELSE IF ~host.proc_readable THEN Err("Failed to read /proc/partitions")
    ELSE DisksLoop([i \in 1..Len(host.lines) |->
                       [host.lines[i] EXCEPT
                           !.blkid = IF host.blkid_runs THEN Stdout(@)
                                     ELSE NotRunnable]],
                   host.lsblk_runs, <<>>, parsed.val)

\* a bug that compares the device paths instead of the identity paths
existing_paths(existing_disks) ==
    UNION { { partition.path : partition \in SeqElems(disk.partitions) } :
            disk \in SeqElems(existing_disks) }

MissingByPath(configured_partitions, existing_disks) ==
    SelectSeq(configured_partitions,
              LAMBDA p : p.path \notin existing_paths(existing_disks))

existing_uuids(existing_disks) ==
    UNION { { partition.uuid_path : partition \in SeqElems(disk.partitions) } :
            disk \in SeqElems(existing_disks) }

find_missing_partitions(configured_partitions, existing_disks) ==
    SelectSeq(configured_partitions,
              LAMBDA p : p.uuid_path \notin existing_uuids(existing_disks))

\* missing_partitions.rs: the partitions that "remove" takes out of the tree
remove_missing_partitions(missing_vec, ds) ==
    [i \in 1..Len(ds) |->
        [ds[i] EXCEPT !.partitions =
            SelectSeq(@, LAMBDA partition :
                ~ \E m \in 1..Len(missing_vec) : missing_vec[m].path = partition.path)]]

-----------------------------------------------------------------------------
(* Inputs of the text functions *)

\* the number of declarations and other lines of a configuration text
MaxDecls == 2
\* the number of mount points of the first partition of a disk tree
MaxMounts == 1


\* a declaration as nixos-generate-config writes it
Block(key, device) ==
    <<SP, SP, FS_WORD, QUOTE>> \o key \o <<QUOTE, SP, "=", SP, "{", NL>>
    \o <<SP, SP, SP, SP, DEVICE_WORD, QUOTE>> \o device \o <<QUOTE, ";", NL>>
    \o <<SP, SP, "}", ";", NL>>
\* a declaration by attribute path, with no braces of its own
OneLine(key, device) ==
    <<SP, SP, FS_WORD, QUOTE>> \o key \o <<QUOTE, ".", DEVICE_WORD, QUOTE>>
    \o device \o <<QUOTE, ";", NL>>
\* a declaration with its filesystem type and its options
FullBlock(key, device, fs_type) ==
    <<SP, SP, FS_WORD, QUOTE>> \o key \o <<QUOTE, SP, "=", SP, "{", NL>>
    \o <<SP, SP, SP, SP, DEVICE_WORD, QUOTE>> \o device \o <<QUOTE, ";", NL>>
    \o <<SP, SP, SP, SP, "fsType", SP, "=", SP, QUOTE>> \o fs_type \o <<QUOTE, ";", NL>>
    \o <<SP, SP, SP, SP, "options", SP, "=", SP, "[", SP, QUOTE, "defaults", QUOTE,
         SP, "]", ";", NL>>
    \o <<SP, SP, "}", ";", NL>>
\* a declaration that is cut off before its closing brace
Unterminated(key, device) ==
    <<SP, SP, FS_WORD, QUOTE>> \o key \o <<QUOTE, SP, "=", SP, "{", NL>>
    \o <<SP, SP, SP, SP, DEVICE_WORD, QUOTE>> \o device \o <<QUOTE, ";", NL>>
\* a declaration by label, with no device field
NoDevice(key) ==
    <<SP, SP, FS_WORD, QUOTE>> \o key \o <<QUOTE, SP, "=", SP, "{", NL>>
    \o <<SP, SP, SP, SP, "label", SP, "=", SP, QUOTE, "L", QUOTE, ";", NL>>
    \o <<SP, SP, "}", ";", NL>>
\* a declaration whose key is not closed on its line
NoKey(device) ==
    <<SP, SP, FS_WORD, QUOTE, "/", "data", NL>>
    \o <<SP, SP, SP, SP, DEVICE_WORD, QUOTE>> \o device \o <<QUOTE, ";", NL>>
    \o <<SP, SP, "}", ";", NL>>
OtherLine == <<SP, SP, "# swap", NL>>

ROOT == <<"/">>
DATA == <<"/", "data">>
DeclKeys == {ROOT, DATA}
DeviceOf(key) == IF key = ROOT THEN UuidPath("R") ELSE UuidPath("A")

\* the declarations a text of the regeneration is made of
RegenFragments ==
    {Block(k, DeviceOf(k)) : k \in DeclKeys}
    \cup {OneLine(k, DeviceOf(k)) : k \in DeclKeys}
    \cup {Unterminated(k, DeviceOf(k)) : k \in DeclKeys}
    \cup {OtherLine}

TextTails == { <<"}", NL>>, <<"}", NL, SP, SP, "# end", NL>> }

SeqsUpTo(S, n) == UNION {[1..k -> S] : k \in 0..n}

TextsOf(fragments, tails) ==
    { <<"{", NL>> \o Concat(fs) \o tail :
        fs \in SeqsUpTo(fragments, MaxDecls), tail \in tails }

RegenTexts == TextsOf(RegenFragments, TextTails)

\* the mount points an operator can give a partition
MountUniverse ==
    { DATA, <<"/", "boot">>, <<"/", "a", "}", "b">>, <<"/", "a", QUOTE, "b">> }

NoDuplicates(s) == \A i, j \in 1..Len(s) : s[i] = s[j] => i = j

MountLists == {s \in SeqsUpTo(MountUniverse, MaxMounts) : NoDuplicates(s)}

\* two disks; the first partition of the first carries the mount points
DiskTree(mounts_a, mounts_b, mounts_c) ==
    << Disk(DevPath(<<"sd", "a">>),
            << Partition(DevPath(<<"sd", "a", "1">>), UuidPath("A"), mounts_a,
                         Some(<<"ext4">>), 100, None),
               Partition(DevPath(<<"sd", "a", "2">>), UuidPath("B"), mounts_b,
                         Some(<<"btrfs">>), 100, None) >>, 200),
       Disk(DevPath(<<"sd", "b">>),
            << Partition(DevPath(<<"sd", "b", "1">>), UuidPath("C"), mounts_c,
                         None, 100, None) >>, 100) >>

DiskTrees ==
    {<<>>}
    \cup { DiskTree(ma, mb, mc) :
             ma \in MountLists,
             mb \in {<<>>, <<<<"/", "media", "/", "b">>>>},
             mc \in {<<>>, <<<<"/", "media", "/", "c">>>>} }

\* the symbolic links of /dev/disk/by-uuid on the machine of the checks
Links ==
    [ref \in {UuidPath("A"), UuidPath("B"), UuidPath("C")} |->
        IF ref = UuidPath("A") THEN DevPath(<<"sd", "a", "1">>)
        ELSE IF ref = UuidPath("B") THEN DevPath(<<"sd", "a", "2">>)
        ELSE DevPath(<<"sd", "b", "1">>)]

NotYet == [kind |-> "NotYet"]

\* the parts of the state a specification does not use
NoMachine == [proc_readable |-> FALSE, lines |-> <<>>, lsblk_runs |-> FALSE,
              blkid_runs |-> FALSE, links |-> <<>>]
TextIdle ==
    /\ generated = NotYet /\ regenerated = NotYet
    /\ parsed_in = NotYet /\ parsed_out = NotYet
EnumIdle == machine = NoMachine /\ enumerated = NotYet
DriftIdle == configured = <<>> /\ missing = NotYet
OptionIdle == fs_type_in = <<>> /\ mount_point_in = <<>> /\ fs_options = NotYet
ScanIdle == scan_config = <<>> /\ scan_pos = 0 /\ scan_preserved = <<>>
AppIdle ==
    /\ config_file = <<>> /\ hardware_config = <<>>
    /\ window = "none" /\ dialog = "none"
    /\ rebuild_banner = FALSE /\ rebuild_error_banner = FALSE
    /\ rebuilds = <<>> /\ status_files = {} /\ saved_mounts = {}

-----------------------------------------------------------------------------
(* The regeneration of a text, its repetition and the extraction from its  *)
(* output                                                                  *)

InitRegen ==
    /\ nix_config \in RegenTexts
    /\ disks \in DiskTrees
    /\ TextIdle /\ EnumIdle /\ DriftIdle /\ AppIdle /\ OptionIdle /\ ScanIdle
    /\ pc = "start"

Generate ==
    /\ pc = "start"
    /\ generated' = get_nix_disks_config(nix_config, disks)
    /\ pc' = "generated"
    /\ UNCHANGED <<scanVars, optionVars,
                   nix_config, disks, regenerated, parsed_in, parsed_out, enumVars, driftVars, appVars>>

Regenerate ==
    /\ pc = "generated"
    /\ generated.kind = "Ok"
    /\ regenerated' = get_nix_disks_config(generated.val, disks)
    /\ pc' = "regenerated"
    /\ UNCHANGED <<scanVars, optionVars,
                   nix_config, disks, generated, parsed_in, parsed_out, enumVars, driftVars, appVars>>

ParseOutput ==
    /\ pc = "regenerated"
    /\ parsed_out' = parse_nix_filesystems(generated.val, Links)
    /\ pc' = "done"
    /\ UNCHANGED <<scanVars, optionVars,
                   nix_config, disks, generated, regenerated, parsed_in, enumVars, driftVars, appVars>>

NextRegen == Generate \/ Regenerate \/ ParseOutput

SpecRegen == InitRegen /\ [][NextRegen]_vars

-----------------------------------------------------------------------------
(* One regeneration, on texts with several protected declarations and on   *)
(* trees with several mount points on a partition                          *)

MaxSpliceDecls == 2

BOOT == <<"/", "boot">>

SpliceFragments ==
    { Block(ROOT, UuidPath("R")), Block(BOOT, UuidPath("E")),
      Block(DATA, UuidPath("A")), OneLine(DATA, UuidPath("A")),
      Unterminated(DATA, UuidPath("A")), OtherLine }

SpliceTexts ==
    { <<"{", NL>> \o Concat(fs) \o tail :
        fs \in SeqsUpTo(SpliceFragments, MaxSpliceDecls), tail \in TextTails }

SpliceTrees ==
    {<<>>}
    \cup { DiskTree(ma, mb, mc) :
             ma \in { <<>>, <<DATA>>, <<BOOT, DATA>>, <<DATA, <<"/", "media", "/", "x">>>> },
             mb \in {<<>>, <<<<"/", "media", "/", "b">>>>},
             mc \in {<<>>, <<<<"/", "media", "/", "c">>>>} }

InitSplice ==
    /\ nix_config \in SpliceTexts
    /\ disks \in SpliceTrees
    /\ TextIdle /\ EnumIdle /\ DriftIdle /\ AppIdle /\ OptionIdle /\ ScanIdle
    /\ pc = "start"

NextSplice == Generate

SpecSplice == InitSplice /\ [][NextSplice]_vars

-----------------------------------------------------------------------------
(* The two scanning loops of the regeneration, one iteration at a step     *)

\* pos = absolute_pos + close_pos + 2: the position after the "};"
PosAfter(close_pos) == close_pos + 2

\* a bug that leaves the text as it is
KeepRange(config, pos, close_pos) == config

\* config.replace_range(pos..pos + close_pos + 2, "")
RemoveRange(config, pos, close_pos) ==
    SubSeq(config, 1, pos - 1) \o SubSeq(config, close_pos + 2, Len(config))

InitScan ==
    /\ nix_config \in SpliceTexts
    /\ disks = <<>>
    /\ TextIdle /\ EnumIdle /\ DriftIdle /\ AppIdle /\ OptionIdle /\ ScanIdle
    /\ pc = "start"

StartScan ==
    /\ pc = "start"
    /\ scan_config' = nix_config
    /\ scan_pos' = 1
    /\ scan_preserved' = <<>>
    /\ pc' = "preserving"
    /\ UNCHANGED <<optionVars, nix_config, disks, generated, regenerated, parsed_in,
                   parsed_out, enumVars, driftVars, appVars>>

\* the body of the first loop for the block found
PreserveBlock(block, close_pos) ==
    /\ scan_preserved' =
           IF /\ extract_mount_point(block).some
              /\ is_critical_mount_point(extract_mount_point(block).val)
           THEN Append(scan_preserved, block)
           ELSE scan_preserved
    /\ scan_pos' = PosAfter(close_pos)
    /\ pc' = pc

\* one test of the first `while let', and its body when the test succeeds
PreserveStep ==
    /\ pc = "preserving"
    /\ \E absolute_pos \in {Find(scan_config, Marker, scan_pos)} :
       \E close_pos \in {IF absolute_pos = 0 THEN 0
                         ELSE Find(scan_config, BlockClose, absolute_pos)} :
           IF absolute_pos = 0 \/ close_pos = 0
           THEN /\ pc' = "removing"
                /\ UNCHANGED <<scan_pos, scan_preserved>>
           ELSE PreserveBlock(SubSeq(scan_config, absolute_pos, close_pos + 1), close_pos)
    /\ UNCHANGED <<optionVars, scan_config, nix_config, disks, generated, regenerated,
                   parsed_in, parsed_out, enumVars, driftVars, appVars>>

\* one test of the second `while let', and its body when the test succeeds
RemoveStep ==
    /\ pc = "removing"
    /\ \E pos \in {Find(scan_config, Marker, 1)} :
       \E close_pos \in {IF pos = 0 THEN 0 ELSE Find(scan_config, BlockClose, pos)} :
           IF pos = 0 \/ close_pos = 0
           THEN /\ pc' = "scanned"
                /\ scan_config' = scan_config
           ELSE /\ scan_config' = RemoveRange(scan_config, pos, close_pos)
                /\ pc' = pc
    /\ UNCHANGED <<optionVars, scan_pos, scan_preserved, nix_config, disks, generated,
                   regenerated, parsed_in, parsed_out, enumVars, driftVars, appVars>>

NextScan == StartScan \/ PreserveStep \/ RemoveStep

\* the function runs on: a step that can be taken is taken
SpecScan == InitScan /\ [][NextScan]_vars /\ WF_vars(NextScan)

-----------------------------------------------------------------------------
(* The extraction from a text                                              *)

\* declarations of the shapes the extraction has to tell apart
ParseFragments ==
    {Block(k, DeviceOf(k)) : k \in DeclKeys}
    \cup {NoDevice(k) : k \in DeclKeys}
    \cup {Unterminated(DATA, DeviceOf(DATA)), OneLine(DATA, DeviceOf(DATA)),
          Block(<<"/", "a", "}", "b">>, UuidPath("B")),
          FullBlock(DATA, UuidPath("Z"), <<"ext4">>),
          Block(<<"/", "mnt">>, DevPath(<<"sd", "a", "1">>)),
          NoKey(UuidPath("B")), OtherLine}

ParseTexts ==
    { head \o Concat(fs) \o tail :
        head \in { <<"{", NL>>, <<>> },
        fs \in SeqsUpTo(ParseFragments, MaxDecls),
        tail \in { <<"}", NL>>, <<>> } }

InitParse ==
    /\ nix_config \in ParseTexts
    /\ disks = <<>>
    /\ TextIdle /\ EnumIdle /\ DriftIdle /\ AppIdle /\ OptionIdle /\ ScanIdle
    /\ pc = "start"

ParseInput ==
    /\ pc = "start"
    /\ parsed_in' = parse_nix_filesystems(nix_config, Links)
    /\ pc' = "parsed"
    /\ UNCHANGED <<scanVars, optionVars,
                   nix_config, disks, generated, regenerated, parsed_out, enumVars, driftVars, appVars>>

NextParse == ParseInput

SpecParse == InitParse /\ [][NextParse]_vars

-----------------------------------------------------------------------------
(* The drift detection                                                     *)

\* the number of configured partitions
MaxConfigured == 2

\* a partition by its device name and the uuid of its identity path
Part(name, uuid) ==
    Partition(DevPath(name), UuidPath(uuid), <<DATA>>, None, 0, None)

\* configured partitions: two that differ in both paths, one that shares
\* the device path of the first, one that shares its identity path
ConfiguredUniverse ==
    { Part(<<"sd", "a", "1">>, "A"), Part(<<"sd", "b", "1">>, "C"),
      Part(<<"sd", "a", "1">>, "Z"), Part(<<"sd", "z", "9">>, "A") }

LiveTrees ==
    { <<>>,
      << Disk(DevPath(<<"sd", "a">>), <<>>, 200) >>,
      << Disk(DevPath(<<"sd", "a">>), << Part(<<"sd", "a", "1">>, "A") >>, 200) >>,
      << Disk(DevPath(<<"sd", "a">>), << Part(<<"sd", "a", "1">>, "Z") >>, 200) >>,
      << Disk(DevPath(<<"sd", "a">>), << Part(<<"sd", "a", "1">>, "A") >>, 200),
         Disk(DevPath(<<"sd", "b">>), << Part(<<"sd", "b", "1">>, "C") >>, 100) >>,
      << Disk(DevPath(<<"sd", "a">>), <<>>, 200),
         Disk(DevPath(<<"sd", "b">>),
              << Part(<<"sd", "b", "1">>, "C"), Part(<<"sd", "b", "2">>, "A") >>, 100) >> }

InitDrift ==
    /\ configured \in SeqsUpTo(ConfiguredUniverse, MaxConfigured)
    /\ disks \in LiveTrees
    /\ nix_config = <<>>
    /\ TextIdle /\ EnumIdle /\ AppIdle /\ OptionIdle /\ ScanIdle
    /\ missing = NotYet
    /\ pc = "start"

FindMissing ==
    /\ pc = "start"
    /\ missing' = [kind |-> "seq", val |-> find_missing_partitions(configured, disks)]
    /\ pc' = "done"
    /\ UNCHANGED <<scanVars, optionVars,
                   nix_config, disks, generated, regenerated, parsed_in, parsed_out,
                   enumVars, configured, appVars>>

\* the operator answers "remove" to the partitions reported missing
RemoveMissing ==
    /\ pc = "done"
    /\ disks' = remove_missing_partitions(missing.val, disks)
    /\ pc' = "removed"
    /\ UNCHANGED <<scanVars, optionVars,
                   nix_config, generated, regenerated, parsed_in, parsed_out,
                   enumVars, driftVars, appVars>>

NextDrift == FindMissing \/ RemoveMissing

SpecDrift == InitDrift /\ [][NextDrift]_vars

-----------------------------------------------------------------------------
(* The enumeration                                                         *)

\* the number of lines of /proc/partitions after its header
MaxEntries == 3

Pair(key, val) == [key |-> key, val |-> val]
Size(n) == [parses |-> TRUE, size |-> n]
Unparsable == [parses |-> FALSE]

\* a line of /proc/partitions with what lsblk and blkid print for its device
Line(name, lsblk, blkid) == [fields |-> 4, name |-> name, lsblk |-> lsblk, blkid |-> blkid]

LineUniverse ==
    { Line(<<"sd", "a">>, Size(200), << Pair(<<"PT", "UUID">>, "T") >>),
      Line(<<"sd", "a", "1">>, Size(100),
           << Pair(<<"UUID">>, "A"), Pair(<<"TYPE">>, "ext4") >>),
      Line(<<"sd", "a", "2">>, Size(50),
           << Pair(<<"LABEL">>, "data"), Pair(<<"UUID">>, "B"), Pair(<<"TYPE">>, "btrfs") >>),
      Line(<<"sd", "a", "1", "0">>, Size(10), << Pair(<<"UUID">>, "D") >>),
      Line(<<"sd", "a", "3">>, Size(10), <<>>),
      Line(<<"sd", "b">>, Unparsable, <<>>),
      Line(<<"sr", "0">>, Size(1), <<>>),
      [fields |-> 3, name |-> <<>>, lsblk |-> Unparsable, blkid |-> <<>>] }

Listings == {l \in SeqsUpTo(LineUniverse, MaxEntries) : NoDuplicates(l)}

\* udev keeps one link in /dev/disk/by-uuid for every filesystem UUID
LinksOf(lines) ==
    LET with_uuid == { i \in 1..Len(lines) :
                         \E k \in 1..Len(lines[i].blkid) :
                             lines[i].blkid[k].key = <<"UUID">> }
        uuid_of(i) == lines[i].blkid[
                          Min({k \in 1..Len(lines[i].blkid) :
                                 lines[i].blkid[k].key = <<"UUID">>})].val
    IN  [ref \in {UuidPath(uuid_of(i)) : i \in with_uuid} |->
            DevPath(lines[CHOOSE i \in with_uuid : UuidPath(uuid_of(i)) = ref].name)]

\* what can be wrong with the machine: nothing, /proc/partitions unreadable,
\* lsblk missing, blkid missing
Machines ==
    { [proc_readable |-> flags[1], lsblk_runs |-> flags[2], blkid_runs |-> flags[3],
       lines |-> l, links |-> LinksOf(l)] :
        l \in Listings,
        flags \in { <<TRUE, TRUE, TRUE>>, <<FALSE, TRUE, TRUE>>,
                    <<TRUE, FALSE, TRUE>>, <<TRUE, TRUE, FALSE>> } }

\* the nix_config argument of get_disks
EnumConfigs ==
    { None,
      Some(<<"{", NL>> \o Block(DATA, UuidPath("A")) \o <<"}", NL>>),
      Some(<<"{", NL>> \o NoDevice(DATA) \o <<"}", NL>>) }

InitDisks ==
    /\ machine \in Machines
    /\ nix_config \in EnumConfigs
    /\ disks = <<>>
    /\ TextIdle /\ DriftIdle /\ AppIdle /\ OptionIdle /\ ScanIdle
    /\ enumerated = NotYet
    /\ pc = "start"

GetDisks ==
    /\ pc = "start"
    /\ enumerated' = get_disks(nix_config, machine)
    /\ pc' = "enumerated"
    /\ UNCHANGED <<scanVars, optionVars,
                   nix_config, disks, generated, regenerated, parsed_in, parsed_out,
                   machine, driftVars, appVars>>

NextDisks == GetDisks

SpecDisks == InitDisks /\ [][NextDisks]_vars

-----------------------------------------------------------------------------
(* The application: ui/app.rs, ui/window.rs, ui/dialogs                    *)

\* the number of saves that reach the rebuild
MaxSaves == 1
\* the number of checks after which the watcher of a rebuild gives up
\* (window.rs:385 has 300)
MaxChecks == 1

should_filter_partition(partition) ==
    \/ \E i \in 1..Len(partition.mount_points) :
           is_critical_mount_point(partition.mount_points[i])
    \/ (partition.fs_type.some /\ partition.fs_type.val = <<"swap">>)

\* the mount point made of the text of the entry (<<>>: nothing is added)
MountPointOfInput(input) ==
    IF input = <<>> THEN None
    ELSE IF input[1] = "/" THEN Some(input)
    ELSE Some(<<"/", "media", "/">> \o input)

\* the loops of the handler that adds a mount point: the first partition with
\* the path in each disk, until one takes the mount point
RECURSIVE AddLoop(_, _, _, _)
AddLoop(ds, i, partition_path, mount_point) ==
    IF i > Len(ds) THEN [disks |-> ds, added |-> FALSE]
    ELSE
    LET hits == { k \in 1..Len(ds[i].partitions) :
                    ds[i].partitions[k].path = partition_path }
    IN  IF hits = {} \/ Contains(ds[i].partitions[Min(hits)].mount_points, mount_point)
        THEN AddLoop(ds, i + 1, partition_path, mount_point)
        ELSE [disks |-> [ds EXCEPT ![i].partitions[Min(hits)].mount_points =
                                       Append(@, mount_point)],
              added |-> TRUE]

\* the loops of the handler that removes a mount point: the first partition
\* with the path
RemoveLoop(ds, partition_path, mount_point) ==
    LET hits == { i \in 1..Len(ds) :
                    \E k \in 1..Len(ds[i].partitions) :
                        ds[i].partitions[k].path = partition_path }
    IN  IF hits = {} THEN [disks |-> ds, removed |-> FALSE]
        ELSE LET i == Min(hits)
                 k == Min({ k \in 1..Len(ds[i].partitions) :
                              ds[i].partitions[k].path = partition_path })
             IN  [disks |-> [ds EXCEPT ![i].partitions[k] =
                                           remove_mount_point(@, mount_point)],
                  removed |-> TRUE]

\* the orders in which a map gives its values
Orders(S) ==
    { order \in [1..Cardinality(S) -> S] :
        \A i, j \in 1..Cardinality(S) : order[i] = order[j] => i = j }

\* a bug that writes the loaded text back
WrittenInput(config, new_config) == config

\* the text that a save hands to fs::write
WrittenText(config, new_config) == new_config

\* a rebuild: spawning, watching, then no-terminal, complete or timeout
Rebuild(phase, status_file, check_count, script) ==
    [phase |-> phase, status_file |-> status_file, check_count |-> check_count,
     script |-> script]

\* do_save_config on the disks that the calling handler leaves
do_save_config(ds) ==
    /\ generated' = get_nix_disks_config(hardware_config, ds)
    /\ IF generated'.kind = "Ok"
       THEN \E write_ok \in BOOLEAN :
              IF write_ok
              THEN /\ config_file' = WrittenText(hardware_config, generated'.val)
                   /\ rebuild_error_banner' = FALSE
                   /\ rebuild_banner' = TRUE
                   /\ rebuilds' = Append(rebuilds, Rebuild("spawning", 0, 0, "none"))
              ELSE /\ rebuild_error_banner' = TRUE
                   /\ UNCHANGED <<config_file, rebuild_banner, rebuilds>>
       ELSE /\ rebuild_error_banner' = TRUE
            /\ UNCHANGED <<config_file, rebuild_banner, rebuilds>>

\* the machine of the application: one disk, its root partition, one more
AppMachine ==
    LET lines == << Line(<<"sd", "a">>, Size(200), <<>>),
                    Line(<<"sd", "a", "1">>, Size(100),
                         << Pair(<<"UUID">>, "R"), Pair(<<"TYPE">>, "ext4") >>),
                    Line(<<"sd", "a", "2">>, Size(50),
                         << Pair(<<"UUID">>, "A"), Pair(<<"TYPE">>, "ext4") >>) >>
    IN  [proc_readable |-> TRUE, lsblk_runs |-> TRUE, blkid_runs |-> TRUE,
         lines |-> lines, links |-> LinksOf(lines)]

\* the configuration file at the start: the root alone, the root and a
\* partition that is there, the root and a partition that is gone
AppTexts ==
    { <<"{", NL>> \o Block(ROOT, UuidPath("R")) \o <<"}", NL>>,
      <<"{", NL>> \o Block(ROOT, UuidPath("R")) \o Block(DATA, UuidPath("A"))
          \o <<"}", NL>>,
      <<"{", NL>> \o Block(ROOT, UuidPath("R")) \o Block(DATA, UuidPath("Z"))
          \o <<"}", NL>> }

\* the texts that the operator types in the entry of a partition
OperatorInputs == { <<>>, DATA, <<"x">> }

InitApp ==
    /\ config_file \in AppTexts
    /\ machine = AppMachine
    /\ nix_config = <<>> /\ disks = <<>>
    /\ TextIdle /\ DriftIdle /\ OptionIdle /\ ScanIdle
    /\ enumerated = NotYet
    /\ hardware_config = <<>>
    /\ window = "none" /\ dialog = "none"
    /\ rebuild_banner = FALSE /\ rebuild_error_banner = FALSE
    /\ rebuilds = <<>> /\ status_files = {} /\ saved_mounts = {}
    /\ pc = "start"

\* on_activate: load the file, enumerate, detect the drift, show the window
OnActivate ==
    /\ window = "none"
    /\ hardware_config' = config_file
    /\ enumerated' = get_disks(Some(config_file), machine)
    /\ IF enumerated'.kind = "Ok"
       THEN /\ parsed_in' = parse_nix_filesystems(config_file, machine.links)
            /\ \E order \in Orders(IF parsed_in'.kind = "Ok" THEN DOMAIN parsed_in'.val
                                   ELSE {}) :
                   configured' = [i \in 1..Len(order) |-> parsed_in'.val[order[i]]]
            /\ missing' = [kind |-> "seq",
                           val |-> find_missing_partitions(configured', enumerated'.val)]
            /\ disks' = enumerated'.val
            /\ window' = "open"
            /\ dialog' = IF missing'.val # <<>> THEN "open" ELSE "none"
       ELSE /\ window' = IF enumerated'.kind = "Err" THEN "failed" ELSE "aborted"
            /\ UNCHANGED <<disks, parsed_in, configured, missing, dialog>>
    /\ UNCHANGED <<scanVars, optionVars, saved_mounts,
                   nix_config, generated, regenerated, parsed_out, pc,
                   machine, config_file, rebuild_banner, rebuild_error_banner,
                   rebuilds, status_files>>

\* the answer to the dialog of missing partitions
MissingResponse(response) ==
    /\ window = "open" /\ dialog = "open"
    /\ disks' = IF response = "remove"
                THEN remove_missing_partitions(missing.val, disks) ELSE disks
    /\ dialog' = IF response = "remove" THEN "removed" ELSE "kept"
    /\ UNCHANGED <<scanVars, optionVars, saved_mounts,
                   nix_config, generated, regenerated, parsed_in, parsed_out, pc,
                   enumVars, driftVars, config_file, hardware_config, window,
                   rebuild_banner, rebuild_error_banner, rebuilds, status_files>>

\* the partitions that the dialog of a disk shows
ManageablePaths ==
    UNION { { partition.path : partition \in
                { q \in SeqElems(disk.partitions) : ~should_filter_partition(q) } } :
            disk \in SeqElems(disks) }

MountPointsAt(partition_path) ==
    UNION { UNION { SeqElems(partition.mount_points) : partition \in
                      { q \in SeqElems(disk.partitions) : q.path = partition_path } } :
            disk \in SeqElems(disks) }

\* the mount points that a regeneration writes a block for
GeneratedMounts(ds) ==
    UNION { UNION { { [path |-> partition.path, uuid_path |-> partition.uuid_path,
                       mount_point |-> mount_point] :
                        mount_point \in { mp \in SeqElems(partition.mount_points) :
                                            ~is_critical_mount_point(mp) } } :
                    partition \in SeqElems(disk.partitions) } :
            disk \in SeqElems(ds) }

\* the confirmed addition of a mount point, with the save that follows it
AddMountPoint(partition_path, input) ==
    /\ window = "open" /\ dialog # "open"
    /\ MountPointOfInput(input).some
    /\ LET loop == AddLoop(disks, 1, partition_path, MountPointOfInput(input).val)
       IN  /\ disks' = loop.disks
           /\ IF loop.added THEN do_save_config(loop.disks)
              ELSE UNCHANGED <<generated, config_file, rebuild_banner,
                               rebuild_error_banner, rebuilds>>
    /\ saved_mounts' = IF Len(rebuilds') > Len(rebuilds)
                       THEN saved_mounts \cup GeneratedMounts(disks')
                       ELSE saved_mounts
    /\ UNCHANGED <<scanVars, optionVars,
                   nix_config, regenerated, parsed_in, parsed_out, pc, enumVars,
                   driftVars, hardware_config, window, dialog, status_files>>

\* the confirmed removal of a mount point, with the save that follows it
RemoveMountPoint(partition_path, mount_point) ==
    /\ window = "open" /\ dialog # "open"
    /\ LET loop == RemoveLoop(disks, partition_path, mount_point)
       IN  /\ disks' = loop.disks
           /\ IF loop.removed THEN do_save_config(loop.disks)
              ELSE UNCHANGED <<generated, config_file, rebuild_banner,
                               rebuild_error_banner, rebuilds>>
    /\ saved_mounts' =
           LET remaining == { sm \in saved_mounts :
                                ~(sm.path = partition_path /\ sm.mount_point = mount_point) }
           IN  IF Len(rebuilds') > Len(rebuilds)
               THEN remaining \cup GeneratedMounts(disks')
               ELSE remaining
    /\ UNCHANGED <<scanVars, optionVars,
                   nix_config, regenerated, parsed_in, parsed_out, pc, enumVars,
                   driftVars, hardware_config, window, dialog, status_files>>

\* the seconds at which a rebuild can be spawned: the second of the latest
\* spawn or a later one
Timestamps ==
    LET spawned == { rebuilds[i].status_file : i \in
                       { j \in 1..Len(rebuilds) : rebuilds[j].phase # "spawning" } }
        latest == CHOOSE t \in spawned : \A u \in spawned : u <= t
    IN  IF spawned = {} THEN {1} ELSE {latest, latest + 1}

\* the future of a save: write the script, name the status file after the
\* second, open a terminal; without a terminal the rebuild is over
SpawnRebuild(i, timestamp, terminal_opened) ==
    /\ window = "open"
    /\ rebuilds[i].phase = "spawning"
    /\ IF terminal_opened
       THEN /\ rebuilds' = [rebuilds EXCEPT ![i] = Rebuild("watching", timestamp, 0, "running")]
            /\ UNCHANGED <<rebuild_banner, rebuild_error_banner>>
       ELSE /\ rebuilds' = [rebuilds EXCEPT ![i] = Rebuild("no-terminal", timestamp, 0, "none")]
            /\ rebuild_banner' = FALSE
            /\ rebuild_error_banner' = TRUE
    /\ UNCHANGED <<scanVars, optionVars, saved_mounts,
                   textVars, enumVars, driftVars, config_file, hardware_config,
                   window, dialog, status_files>>

\* the script in the terminal: nixos-rebuild ends, and its success leaves
\* the status file
ScriptEnds(i, success) ==
    /\ rebuilds[i].script = "running"
    /\ rebuilds' = [rebuilds EXCEPT ![i].script = "ended"]
    /\ status_files' = IF success THEN status_files \cup {rebuilds[i].status_file}
                       ELSE status_files
    /\ UNCHANGED <<scanVars, optionVars, saved_mounts,
                   textVars, enumVars, driftVars, config_file, hardware_config,
                   window, dialog, rebuild_banner, rebuild_error_banner>>

\* one check of the watcher of a rebuild
WatcherTick(i) ==
    /\ window = "open"
    /\ rebuilds[i].phase = "watching"
    /\ LET count == rebuilds[i].check_count + 1 IN
       IF rebuilds[i].status_file \in status_files
       THEN LET updated_config == config_file
            IN  /\ hardware_config' = updated_config
                /\ enumerated' = get_disks(Some(updated_config), machine)
                /\ disks' = IF enumerated'.kind = "Ok" THEN enumerated'.val ELSE disks
                /\ window' = IF enumerated'.kind = "Panic" THEN "aborted" ELSE window
                /\ rebuild_banner' = FALSE
                /\ status_files' = status_files \ {rebuilds[i].status_file}
                /\ rebuilds' = [rebuilds EXCEPT ![i].phase = "complete"]
       ELSE IF count > MaxChecks
       THEN /\ rebuild_banner' = FALSE
            /\ rebuilds' = [rebuilds EXCEPT ![i].phase = "timeout"]
            /\ UNCHANGED <<hardware_config, enumerated, disks, window, status_files>>
       ELSE /\ rebuilds' = [rebuilds EXCEPT ![i].check_count = count]
            /\ UNCHANGED <<hardware_config, enumerated, disks, window, status_files,
                           rebuild_banner>>
    /\ UNCHANGED <<scanVars, optionVars, saved_mounts,
                   nix_config, generated, regenerated, parsed_in, parsed_out, pc,
                   machine, driftVars, config_file, dialog, rebuild_error_banner>>

NextApp ==
    \/ OnActivate
    \/ \E response \in {"remove", "cancel"} : MissingResponse(response)
    \/ \E partition_path \in ManageablePaths, input \in OperatorInputs :
           Len(rebuilds) < MaxSaves /\ AddMountPoint(partition_path, input)
    \/ \E partition_path \in ManageablePaths :
           \E mount_point \in MountPointsAt(partition_path) :
               Len(rebuilds) < MaxSaves /\ RemoveMountPoint(partition_path, mount_point)
    \/ \E i \in 1..Len(rebuilds), timestamp \in Timestamps, terminal_opened \in BOOLEAN :
           SpawnRebuild(i, timestamp, terminal_opened)
    \/ \E i \in 1..Len(rebuilds), success \in BOOLEAN : ScriptEnds(i, success)
    \/ \E i \in 1..Len(rebuilds) : WatcherTick(i)

SpecApp == InitApp /\ [][NextApp]_vars

-----------------------------------------------------------------------------
(* The application on a machine with a second disk: ui/widgets/disks.rs,   *)
(* ui/dialogs/format_disk.rs                                               *)

\* the card of a disk offers Format instead of Manage
is_virgin(disk) == disk.partitions = <<>>

\* the status file of a format among the status files, which are named by
\* their second (the files of the rebuilds have a second of 1 at least)
FormatStatusFile == 0

\* the listing after the format script: a new table on the disk, one ext4
\* partition in it
FormattedLines(lines, k) ==
    LET before == SubSeq(lines, 1, k - 1)
        after == SelectSeq(SubSeq(lines, k + 1, Len(lines)),
                           LAMBDA line : ~(starts_with(line.name, lines[k].name)
                                           /\ line.name # lines[k].name))
    IN  before
        \o << [lines[k] EXCEPT !.blkid = << Pair(<<"PT", "UUID">>, "G") >>],
              Line(lines[k].name \o <<"1">>, lines[k].lsblk,
                   << Pair(<<"LABEL">>, "vol"), Pair(<<"UUID">>, "F"),
                      Pair(<<"TYPE">>, "ext4") >>) >>
        \o after

\* the operator formats a disk whose card offers it, and the script in the
\* terminal runs to its end and leaves its status file
FormatDisk(d) ==
    /\ window = "open" /\ dialog # "open"
    /\ is_virgin(disks[d])
    /\ FormatStatusFile \notin status_files
    /\ \E k \in 1..Len(machine.lines) :
           /\ DevPath(machine.lines[k].name) = disks[d].path
           /\ ~ \E j \in 1..Len(machine.lines) :
                    machine.lines[j].name = machine.lines[k].name \o <<"1">>
           /\ machine' = [machine EXCEPT
                             !.lines = FormattedLines(machine.lines, k),
                             !.links = LinksOf(FormattedLines(machine.lines, k))]
    /\ status_files' = status_files \cup {FormatStatusFile}
    /\ UNCHANGED <<scanVars, optionVars, saved_mounts,
                   textVars, enumerated, driftVars, config_file, hardware_config,
                   window, dialog, rebuild_banner, rebuild_error_banner, rebuilds>>

\* the watcher of the format finds the status file: the disks are read again
\* with the loaded configuration
FormatComplete ==
    /\ window = "open"
    /\ FormatStatusFile \in status_files
    /\ enumerated' = get_disks(Some(hardware_config), machine)
    /\ disks' = IF enumerated'.kind = "Ok" THEN enumerated'.val ELSE disks
    /\ window' = IF enumerated'.kind = "Panic" THEN "aborted" ELSE window
    /\ status_files' = status_files \ {FormatStatusFile}
    /\ UNCHANGED <<scanVars, optionVars, saved_mounts,
                   nix_config, generated, regenerated, parsed_in, parsed_out, pc,
                   machine, driftVars, config_file, hardware_config, dialog,
                   rebuild_banner, rebuild_error_banner, rebuilds>>

\* the machine with a second disk, blank or with a filesystem on the whole disk
WideMachine(whole_disk) ==
    LET lines == << Line(<<"sd", "a">>, Size(200), <<>>),
                    Line(<<"sd", "a", "1">>, Size(100),
                         << Pair(<<"UUID">>, "R"), Pair(<<"TYPE">>, "ext4") >>),
                    Line(<<"sd", "a", "2">>, Size(50),
                         << Pair(<<"UUID">>, "A"), Pair(<<"TYPE">>, "ext4") >>),
                    Line(<<"sd", "a", "3">>, Size(50),
                         << Pair(<<"UUID">>, "B"), Pair(<<"TYPE">>, "ext4") >>),
                    Line(<<"sd", "b">>, Size(100),
                         IF whole_disk
                         THEN << Pair(<<"UUID">>, "C"), Pair(<<"TYPE">>, "ext4") >>
                         ELSE <<>>) >>
    IN  [proc_readable |-> TRUE, lsblk_runs |-> TRUE, blkid_runs |-> TRUE,
         lines |-> lines, links |-> LinksOf(lines)]

\* the configuration file at the start: the root and a declaration of a
\* partition that is there, of one that is gone, of the second disk
WideText(uuid) ==
    <<"{", NL>> \o Block(ROOT, UuidPath("R")) \o Block(DATA, UuidPath(uuid)) \o <<"}", NL>>

\* the declared identity of the data partition, and whether the second disk
\* holds a filesystem
WideStarts == { <<"A", FALSE>>, <<"Z", FALSE>>, <<"C", TRUE>> }

InitWide ==
    /\ \E start \in WideStarts :
           /\ config_file = WideText(start[1])
           /\ machine = WideMachine(start[2])
    /\ nix_config = <<>> /\ disks = <<>>
    /\ TextIdle /\ DriftIdle /\ OptionIdle /\ ScanIdle
    /\ enumerated = NotYet
    /\ hardware_config = <<>>
    /\ window = "none" /\ dialog = "none"
    /\ rebuild_banner = FALSE /\ rebuild_error_banner = FALSE
    /\ rebuilds = <<>> /\ status_files = {} /\ saved_mounts = {}
    /\ pc = "start"

NextWide ==
    \/ OnActivate
    \/ \E response \in {"remove", "cancel"} : MissingResponse(response)
    \/ \E partition_path \in ManageablePaths :
           Len(rebuilds) < MaxSaves /\ AddMountPoint(partition_path, DATA)
    \/ \E partition_path \in ManageablePaths :
           \E mount_point \in MountPointsAt(partition_path) :
               Len(rebuilds) < MaxSaves /\ RemoveMountPoint(partition_path, mount_point)
    \/ \E i \in 1..Len(rebuilds), timestamp \in Timestamps, terminal_opened \in BOOLEAN :
           SpawnRebuild(i, timestamp, terminal_opened)
    \/ \E i \in 1..Len(rebuilds), success \in BOOLEAN : ScriptEnds(i, success)
    \/ \E i \in 1..Len(rebuilds) : WatcherTick(i)
    \/ \E d \in 1..Len(disks) : FormatDisk(d)
    \/ FormatComplete

SpecWide == InitWide /\ [][NextWide]_vars

(***************************************************************************)
(* Two saves around a format, on the machine whose configuration declares  *)
(* nothing that is gone: the dialog of the missing partitions never opens. *)
(***************************************************************************)

\* the number of saves that reach the rebuild around a format
MaxReloadSaves == 2

InitReload ==
    /\ config_file = WideText("A")
    /\ machine = WideMachine(FALSE)
    /\ nix_config = <<>> /\ disks = <<>>
    /\ TextIdle /\ DriftIdle /\ OptionIdle /\ ScanIdle
    /\ enumerated = NotYet
    /\ hardware_config = <<>>
    /\ window = "none" /\ dialog = "none"
    /\ rebuild_banner = FALSE /\ rebuild_error_banner = FALSE
    /\ rebuilds = <<>> /\ status_files = {} /\ saved_mounts = {}
    /\ pc = "start"

NextReload ==
    \/ OnActivate
    \/ \E partition_path \in ManageablePaths :
           Len(rebuilds) < MaxReloadSaves /\ AddMountPoint(partition_path, DATA)
    \/ \E partition_path \in ManageablePaths :
           \E mount_point \in MountPointsAt(partition_path) :
               Len(rebuilds) < MaxReloadSaves
               /\ RemoveMountPoint(partition_path, mount_point)
    \/ \E i \in 1..Len(rebuilds), timestamp \in Timestamps, terminal_opened \in BOOLEAN :
           SpawnRebuild(i, timestamp, terminal_opened)
    \/ \E i \in 1..Len(rebuilds), success \in BOOLEAN : ScriptEnds(i, success)
    \/ \E i \in 1..Len(rebuilds) : WatcherTick(i)
    \/ \E d \in 1..Len(disks) : FormatDisk(d)
    \/ FormatComplete

SpecReload == InitReload /\ [][NextReload]_vars

-----------------------------------------------------------------------------
(* The option table                                                        *)

FsTypes ==
    { <<"ext4">>, <<"btrfs">>, <<"ntfs">>, <<"ntfs3">>, <<"vfat">>, <<"xfs">>,
      <<"auto">>, <<"swap">> }

OptionMountPoints ==
    { ROOT, <<"/", "boot">>, <<"/", "boot", "/", "efi">>, <<"/", "nix">>, DATA,
      <<"/", "media", "/", "x">>, <<"/", "boot", "/">> }

InitOptions ==
    /\ fs_type_in \in FsTypes
    /\ mount_point_in \in OptionMountPoints
    /\ fs_options = NotYet
    /\ nix_config = <<>> /\ disks = <<>>
    /\ TextIdle /\ EnumIdle /\ DriftIdle /\ AppIdle /\ ScanIdle
    /\ pc = "start"

GetOptions ==
    /\ pc = "start"
    /\ fs_options' = Ok(get_filesystem_options(fs_type_in, mount_point_in))
    /\ pc' = "options"
    /\ UNCHANGED <<scanVars, fs_type_in, mount_point_in, nix_config, disks, generated,
                   regenerated, parsed_in, parsed_out, enumVars, driftVars, appVars>>

NextOptions == GetOptions

SpecOptions == InitOptions /\ [][NextOptions]_vars

-----------------------------------------------------------------------------
(* Properties of the regeneration and of the extraction                    *)

IsSubstring(pat, t) == Find(t, pat, 1) # 0

MarkerIndexes(t) == {i \in 1..Len(t) : MatchAt(t, Marker, i)}

\* the key written after the marker at index i: the text up to the next quote
KeyAt(t, i) ==
    LET q == Min({j \in (i + 2)..(Len(t) + 1) : j = Len(t) + 1 \/ t[j] = QUOTE})
    IN  SubSeq(t, i + 2, q - 1)

\* the index of the "};" that closes the declaration whose marker is at
\* index i, when that declaration has one of its own (no other marker comes
\* before it); 0 otherwise
OwnClose(t, i) ==
    LET ends == { e \in (i + 1)..Len(t) :
                    /\ MatchAt(t, BlockClose, e)
                    /\ \A k \in (i + 1)..(e - 1) :
                          ~MatchAt(t, BlockClose, k) /\ ~MatchAt(t, Marker, k) }
    IN  IF ends = {} THEN 0 ELSE Min(ends)

\* the declarations of t with a critical key and a closing "};" of their
\* own: the text from the marker through the "};"
CriticalDeclarations(t) ==
    { SubSeq(t, i, OwnClose(t, i) + 1) :
        i \in { m \in MarkerIndexes(t) :
                  KeyAt(t, m) \in CRITICAL_MOUNT_POINTS /\ OwnClose(t, m) # 0 } }

\* the keys of the declarations of t that are critical
CriticalKeys(t) ==
    { KeyAt(t, i) : i \in MarkerIndexes(t) } \cap CRITICAL_MOUNT_POINTS

\* the mount points of all partitions of a disk tree
TreeMountPoints(ds) ==
    UNION { UNION { SeqElems(partition.mount_points) :
                      partition \in SeqElems(disk.partitions) } :
            disk \in SeqElems(ds) }

\* the mount points of all partitions of an extracted mapping
MapMountPoints(partitions) ==
    UNION { SeqElems(partitions[p].mount_points) : p \in DOMAIN partitions }

\* a marker of t with no "};" after it
HasUnterminatedMarker(t) ==
    \E i \in MarkerIndexes(t) : ~\E e \in (i + 1)..Len(t) : MatchAt(t, BlockClose, e)

\* a marker of t with no closing brace after it
HasMarkerWithoutBrace(t) ==
    \E i \in MarkerIndexes(t) : ~\E e \in (i + 1)..Len(t) : t[e] = "}"

(* C1: every declaration of the input with a critical key, marker through
   its own closing "};", occurs unchanged in the regenerated text. *)
C1_ProtectedBlocksPreserved ==
    pc # "start" =>
        /\ generated.kind = "Ok"
        /\ \A block \in CriticalDeclarations(nix_config) :
              IsSubstring(block, generated.val)

(* C2: when no partition carries a critical mount point that the input does
   not declare, the extraction from the regenerated text succeeds and yields
   exactly the non-critical mount points of the disk tree plus the critical
   keys declared in the input. *)
C2_RoundTrip ==
    (/\ pc = "done"
     /\ (TreeMountPoints(disks) \cap CRITICAL_MOUNT_POINTS) \subseteq CriticalKeys(nix_config))
    =>
        /\ parsed_out.kind = "Ok"
        /\ MapMountPoints(parsed_out.val)
             = (TreeMountPoints(disks) \ CRITICAL_MOUNT_POINTS)
               \cup CriticalKeys(nix_config)

(* C3: regenerating the regenerated text with the same disk tree gives the
   same text, character for character. *)
C3_Idempotent ==
    pc \in {"regenerated", "done"} => regenerated = generated

(* C4: the regeneration returns an error exactly when the input holds a
   marker with no "};" after it, and a text otherwise. *)
C4_UnterminatedFails ==
    pc # "start" =>
        IF HasUnterminatedMarker(nix_config)
        THEN generated.kind = "Err"
        ELSE generated.kind = "Ok"

(* C6: the extraction from a text that holds a marker with no closing brace
   after it returns an error value. *)
C6_AbsentBraceIsError ==
    (pc = "parsed" /\ HasMarkerWithoutBrace(nix_config)) => parsed_in.kind = "Err"

\* no newline in t[a..b]
OneLineSpan(t, a, b) == \A k \in a..b : t[k] # NL

\* the marker at index i is followed on its line by a key of at least one
\* character and a closing quote, and by a closing brace somewhere
FoundBlock(t, i) ==
    /\ MatchAt(t, Marker, i)
    /\ \E j \in (i + 3)..Len(t) : t[j] = QUOTE /\ OneLineSpan(t, i + 2, j - 1)
    /\ \E b \in (i + 1)..Len(t) : t[b] = "}"

\* the closing brace that ends the block of the marker at index i
BraceOf(t, i) == Min({b \in (i + 1)..Len(t) : t[b] = "}"})

HasKeyInBlock(t, i) ==
    \E j \in (i + 3)..BraceOf(t, i) : t[j] = QUOTE /\ OneLineSpan(t, i + 2, j - 1)

HasDeviceInBlock(t, i) ==
    \E p \in i..BraceOf(t, i) : \E q \in (p + 3)..(BraceOf(t, i) - 1) :
        /\ MatchAt(t, DevicePat, p)
        /\ t[q] = QUOTE /\ t[q + 1] = ";"
        /\ OneLineSpan(t, p + 2, q - 1)

MalformedBlocks(t) ==
    { i \in 1..Len(t) :
        FoundBlock(t, i) /\ ~(HasKeyInBlock(t, i) /\ HasDeviceInBlock(t, i)) }

WellFormedBlocks(t) ==
    { i \in 1..Len(t) :
        FoundBlock(t, i) /\ HasKeyInBlock(t, i) /\ HasDeviceInBlock(t, i) }

(* C7: when a block found in the text (a marker with a key on its line and a
   closing brace after it) lacks the closing quote of its key or a
   device = "..."; field before its closing brace, the extraction returns an
   error and no mapping, also when an earlier block is well-formed. *)
C7_MissingFieldFailsWhole ==
    (pc = "parsed" /\ MalformedBlocks(nix_config) # {}) => parsed_in.kind = "Err"

\* a text whose first block is well-formed and a later one is not was extracted
C7_Witness ==
    /\ pc = "parsed"
    /\ parsed_in.kind = "Err"
    /\ \E bad \in MalformedBlocks(nix_config) :
          \E good \in WellFormedBlocks(nix_config) : good < bad

\* locate_blocks: the spans from each marker through the next "};", found
\* one after the other from index from on
RECURSIVE LocateBlocks(_, _)
LocateBlocks(t, from) ==
    LET starts == {i \in MarkerIndexes(t) : i >= from} IN
    IF starts = {} THEN <<>>
    ELSE LET i == Min(starts)
             ends == {e \in (i + 1)..Len(t) : MatchAt(t, BlockClose, e)}
         IN  IF ends = {} THEN <<>>
             ELSE <<SubSeq(t, i, Min(ends) + 1)>> \o LocateBlocks(t, Min(ends) + 2)

\* the located blocks of t with a critical key, in text order
CriticalBlocks(t) ==
    SelectSeq(LocateBlocks(t, 1), LAMBDA block : KeyAt(block, 1) \in CRITICAL_MOUNT_POINTS)

(* C8: the blocks with a critical key in the regenerated text are exactly
   the blocks with a critical key located in the input, unchanged: no block
   with a critical key is generated anew, whatever the disk tree holds. *)
C8_CriticalNeverRegenerated ==
    pc # "start" =>
        /\ generated.kind = "Ok"
        /\ CriticalBlocks(generated.val) = CriticalBlocks(nix_config)


-----------------------------------------------------------------------------
(* Properties of the drift detection and of the enumeration                *)

\* the n-th smallest member of a set of indexes
Nth(S, n) == CHOOSE i \in S : Cardinality({j \in S : j <= i}) = n

\* the configured partitions whose identity path no live partition has
AbsentIndexes ==
    { i \in 1..Len(configured) :
        \A d \in 1..Len(disks) : \A q \in 1..Len(disks[d].partitions) :
            disks[d].partitions[q].uuid_path # configured[i].uuid_path }

\* C9: find_missing_partitions returns exactly the partitions of configured
\* whose uuid_path is the uuid_path of no partition of any live disk, in the
\* order they have in configured, and changes neither input.
C9_DriftCorrect ==
    [][ missing' # missing =>
          /\ missing'.kind = "seq"
          /\ Len(missing'.val) = Cardinality(AbsentIndexes)
          /\ \A n \in 1..Len(missing'.val) :
                 missing'.val[n] = configured[Nth(AbsentIndexes, n)]
          /\ configured' = configured
          /\ disks' = disks ]_vars

\* C9 (witness): of two configured partitions the live disks hold the
\* identity of the first only, and the second alone is reported
C9_Witness ==
    /\ pc = "done"
    /\ Len(configured) = 2
    /\ AbsentIndexes = {2}
    /\ missing.val = <<configured[2]>>

\* the lines of the listing that get_disks does not skip
Kept ==
    { k \in 1..Len(machine.lines) :
        /\ machine.lines[k].fields >= 4
        /\ machine.lines[k].name[1] \notin {"zram", "sr"} }

PathOfLine(k) == DevPath(machine.lines[k].name)

ProperPrefix(j, k) ==
    /\ Len(PathOfLine(j)) < Len(PathOfLine(k))
    /\ SubSeq(PathOfLine(k), 1, Len(PathOfLine(j))) = PathOfLine(j)

\* a kept line is a disk when no earlier disk has a proper prefix of its path
RECURSIVE IsDiskLine(_)
IsDiskLine(k) ==
    /\ k \in Kept
    /\ ~ \E j \in Kept : j < k /\ ProperPrefix(j, k) /\ IsDiskLine(j)

DiskLines == { k \in Kept : IsDiskLine(k) }
OwnerOf(k) == Min({ j \in DiskLines : j < k /\ ProperPrefix(j, k) })
PartitionLinesOf(j) == { k \in Kept \ DiskLines : OwnerOf(k) = j }

\* every disk entry comes before its partition entries
DisksBeforePartitions ==
    \A j \in Kept, k \in Kept : ProperPrefix(j, k) => j < k
\* every partition has a UUID
PartitionsHaveUuid ==
    \A k \in Kept :
        (\E j \in Kept : ProperPrefix(j, k)) =>
            \E n \in 1..Len(machine.lines[k].blkid) :
                /\ machine.lines[k].blkid[n].key = <<"UUID">>
                /\ machine.lines[k].blkid[n].val # ""

\* C10: in a listing with every disk before its partitions and a UUID on
\* every partition, get_disks classifies each non-skipped entry exactly once:
\* as a partition of the first already-classified Disk whose path is a proper
\* textual prefix of its path, otherwise as a new Disk; each Disk owns its
\* partitions in listing order.
C10_Classification ==
    (pc = "enumerated" /\ enumerated.kind = "Ok"
        /\ DisksBeforePartitions /\ PartitionsHaveUuid) =>
    LET ds == enumerated.val IN
    /\ Len(ds) = Cardinality(DiskLines)
    /\ \A n \in 1..Len(ds) :
         /\ ds[n].path = PathOfLine(Nth(DiskLines, n))
         /\ Len(ds[n].partitions) = Cardinality(PartitionLinesOf(Nth(DiskLines, n)))
         /\ \A m \in 1..Len(ds[n].partitions) :
                ds[n].partitions[m].path =
                    PathOfLine(Nth(PartitionLinesOf(Nth(DiskLines, n)), m))

\* C10 (witness): the listing sda, sda1, sda2 gives one Disk sda that owns
\* sda1 then sda2
C10_Witness ==
    /\ pc = "enumerated" /\ enumerated.kind = "Ok"
    /\ DisksBeforePartitions /\ PartitionsHaveUuid
    /\ Len(machine.lines) = 3
    /\ Len(enumerated.val) = 1
    /\ enumerated.val[1].path = DevPath(<<"sd", "a">>)
    /\ Len(enumerated.val[1].partitions) = 2
    /\ enumerated.val[1].partitions[1].path = DevPath(<<"sd", "a", "1">>)
    /\ enumerated.val[1].partitions[2].path = DevPath(<<"sd", "a", "2">>)


-----------------------------------------------------------------------------
(* Properties of the save                                                  *)

\* C5: a save writes the configuration file only after get_nix_disks_config
\* returned Ok on the loaded configuration and the disks, and with exactly
\* the returned text; when it returns an error the file stays as it is, no
\* rebuild is started and the error banner is revealed.
C5_WriteAfterRegeneration ==
    [][ /\ (config_file' # config_file \/ Len(rebuilds') > Len(rebuilds)) =>
              /\ generated' = get_nix_disks_config(hardware_config, disks')
              /\ generated'.kind = "Ok"
              /\ config_file' = generated'.val
        /\ (generated' # generated /\ generated'.kind # "Ok") =>
              /\ config_file' = config_file
              /\ rebuilds' = rebuilds
              /\ rebuild_error_banner' ]_vars

\* C5 (witness): a save has regenerated the text, written it to the file and
\* started a rebuild
C5_Witness ==
    /\ window = "open"
    /\ Len(rebuilds) = 1
    /\ generated.kind = "Ok"
    /\ config_file = generated.val
    /\ config_file # hardware_config
    /\ rebuild_banner /\ ~rebuild_error_banner


-----------------------------------------------------------------------------
(* Properties of the enumeration under failing lookups                     *)

\* the metadata of a line holds nothing that the UUID pattern matches
HasNoUuid(k) ==
    ~ \E n \in 1..Len(machine.lines[k].blkid) :
          machine.lines[k].blkid[n].key[Len(machine.lines[k].blkid[n].key)] = "UUID"

\* the configuration declares nothing (so no line is declared in it)
NothingDeclared == nix_config = None

\* C11: a live partition entry whose metadata holds no UUID and that the
\* configuration does not declare still appears as a Partition in the
\* partition list of its Disk in the result of get_disks.
C11_IdentityLessEnumerable ==
    (pc = "enumerated" /\ enumerated.kind = "Ok" /\ NothingDeclared) =>
        \A k \in Kept \ DiskLines :
            HasNoUuid(k) =>
                \E n \in 1..Len(enumerated.val) :
                    /\ enumerated.val[n].path = PathOfLine(OwnerOf(k))
                    /\ \E m \in 1..Len(enumerated.val[n].partitions) :
                           enumerated.val[n].partitions[m].path = PathOfLine(k)

\* the configuration text of the enumeration parses
ConfigParses ==
    nix_config.some => parse_nix_filesystems(nix_config.val, machine.links).kind = "Ok"

\* C12: a size query or a metadata query that fails, the command that cannot
\* be run included, never fails the enumeration: get_disks returns Ok unless
\* the listing cannot be read or the configuration text does not parse.
C12_LookupFailuresDegrade ==
    (pc = "enumerated" /\ machine.proc_readable /\ ConfigParses) =>
        enumerated.kind = "Ok"


-----------------------------------------------------------------------------
(* Properties of the mount points of the application                       *)

\* the partitions of the disks of the application
AllPartitions ==
    UNION { SeqElems(disks[d].partitions) : d \in 1..Len(disks) }

\* C13: no mount-point list has a duplicate, whatever the operator added and
\* removed; adding a mount point that is already in the list leaves the list
\* as it is, content and order, and triggers no save.
C13_NoDuplicateMountPoints ==
    \A partition \in AllPartitions :
        /\ NoDuplicates(partition.mount_points)
        /\ \A mount_point \in SeqElems(partition.mount_points) :
               /\ add_mount_point(partition, mount_point) = partition
               /\ AddLoop(disks, 1, partition.path, mount_point) =
                      [disks |-> disks, added |-> FALSE]

\* C13 (witness): the operator has added a second mount point to a partition
\* and the save has regenerated the text
C13_Witness ==
    /\ window = "open"
    /\ generated.kind = "Ok"
    /\ \E partition \in AllPartitions : Len(partition.mount_points) = 2


-----------------------------------------------------------------------------
(* Properties of the option table                                          *)

\* the options that a returned list names, in order
ListedOptions(text) ==
    SelectSeq(text, LAMBDA token : token \notin {"[", "]", SP, QUOTE})

\* C14: get_filesystem_options lists defaults and nofail first; names
\* compress=zstd exactly for btrfs; names uid=1000, gid=100 and umask=022
\* exactly for ntfs and ntfs3; names x-gvfs-show exactly when the mount point
\* is neither / nor /boot.
C14_OptionTable ==
    pc = "options" =>
    LET options == ListedOptions(fs_options.val)
        names(opt) == \E i \in 1..Len(options) : options[i] = opt
    IN  /\ Len(options) >= 2
        /\ options[1] = "defaults" /\ options[2] = "nofail"
        /\ names("compress=zstd") <=> fs_type_in = <<"btrfs">>
        /\ \A opt \in {"uid=1000", "gid=100", "umask=022"} :
               names(opt) <=> fs_type_in \in {<<"ntfs">>, <<"ntfs3">>}
        /\ names("x-gvfs-show") <=> mount_point_in \notin {<<"/">>, <<"/", "boot">>}

\* C14 (witness): the options of ext4 on / are asked for and do not name
\* x-gvfs-show
C14_Witness ==
    /\ pc = "options"
    /\ fs_type_in = <<"ext4">> /\ mount_point_in = <<"/">>
    /\ fs_options.val = <<"[", SP, QUOTE, "defaults", QUOTE, SP, QUOTE, "nofail", QUOTE, SP, "]">>


-----------------------------------------------------------------------------
(* Properties of the extraction of one declaration                         *)

\* the text holds one declaration, with key m, device reference d and
\* filesystem type f
SingleDeclaration(t, m, d, f) ==
    /\ IsSubstring(FullBlock(m, d, f), t)
    /\ Cardinality(MarkerIndexes(t)) = 1

\* C15: from a text with a single declaration with key m, device reference d
\* (a path that is not on the machine) and fsType f, parse_nix_filesystems
\* returns exactly one Partition, with mount points [m], identity path d and
\* filesystem type f.
C15_SingleDeclarationExtracted ==
    pc = "parsed" =>
    \A m \in DeclKeys, d \in {UuidPath("Z")}, f \in FsTypes :
        (SingleDeclaration(nix_config, m, d, f) /\ d \notin DOMAIN Links) =>
            /\ parsed_in.kind = "Ok"
            /\ Cardinality(DOMAIN parsed_in.val) = 1
            /\ \A path \in DOMAIN parsed_in.val :
                   /\ parsed_in.val[path].mount_points = <<m>>
                   /\ parsed_in.val[path].uuid_path = d
                   /\ parsed_in.val[path].fs_type = Some(f)

-----------------------------------------------------------------------------
(* Properties of what the saves keep                                       *)

\* the text declares the mount point for the device
Declares(t, mount_point, device) ==
    IsSubstring(<<FS_WORD, QUOTE>> \o mount_point \o <<QUOTE, SP, "=", SP, "{", NL>>
                \o <<SP, SP, SP, SP, DEVICE_WORD, QUOTE>> \o device \o <<QUOTE, ";">>, t)

\* the partition is in the live listing
Listed(path) == \E k \in 1..Len(machine.lines) : DevPath(machine.lines[k].name) = path

\* C16: once a save has written a configuration that declares non-critical
\* mount point m for partition P, the configuration written by every later
\* save declares m for P, unless the operator removed m in between or P left
\* the live listing; the reload of the disks after a format is among the
\* steps in between.
C16_SavedMountPointKept ==
    \A sm \in saved_mounts :
        Listed(sm.path) => Declares(config_file, sm.mount_point, sm.uuid_path)

\* C17: when partitions are reported missing at startup and the operator
\* keeps them in the configuration (or closes the dialog), every later save
\* still writes their declarations; only the answer "remove" takes them out
\* of the written configuration.
C17_KeptDeclarationsWritten ==
    (dialog = "kept" /\ Len(rebuilds) >= 1) =>
        \A i \in 1..Len(missing.val) :
            \A mount_point \in SeqElems(missing.val[i].mount_points) :
                Declares(config_file, mount_point, missing.val[i].uuid_path)

-----------------------------------------------------------------------------
(* Properties of the disk cards and of the drift at startup                *)

\* C18: the card of a disk offers Format (and not Manage) only if the live
\* listing has no partition entry of that disk; a disk whose partition
\* entries all lack a UUID and a declaration is not presented as blank.
C18_FormatOnlyWithoutPartitions ==
    (pc = "enumerated" /\ enumerated.kind = "Ok") =>
        \A n \in 1..Len(enumerated.val) :
            is_virgin(enumerated.val[n]) =>
                ~ \E k \in Kept :
                      /\ Len(enumerated.val[n].path) < Len(PathOfLine(k))
                      /\ starts_with(PathOfLine(k), enumerated.val[n].path)

\* C19: at startup a configured declaration is reported missing only if the
\* device that its reference resolves to is absent from the live listing; a
\* declared device that is listed but classified as a Disk (a filesystem on
\* a whole disk) is not reported missing.
C19_DriftMeansAbsent ==
    (window = "open" /\ missing.kind = "seq") =>
        \A i \in 1..Len(missing.val) : ~Listed(missing.val[i].path)

-----------------------------------------------------------------------------
(* Properties of the keys of the regenerated text                          *)

\* C20: for every disk tree reached from an enumeration by the operator's
\* confirmed additions and removals of mount points, on any partitions of
\* any disks, the text returned by get_nix_disks_config holds each
\* mount-point key in at most one declaration.
C20_UniqueMountPointKeys ==
    generated.kind = "Ok" =>
        \A i \in MarkerIndexes(generated.val), j \in MarkerIndexes(generated.val) :
            i # j => KeyAt(generated.val, i) # KeyAt(generated.val, j)

-----------------------------------------------------------------------------
(* Properties of the collection of disks                                   *)

\* C21: in the sequence returned by get_disks, for any live listing and any
\* order of its entries, no Disk's path has the path of another Disk of the
\* sequence as a proper textual prefix.
C21_NoDiskUnderAnotherDisk ==
    (pc = "enumerated" /\ enumerated.kind = "Ok") =>
        \A m \in 1..Len(enumerated.val), n \in 1..Len(enumerated.val) :
            ~ (/\ Len(enumerated.val[m].path) < Len(enumerated.val[n].path)
               /\ starts_with(enumerated.val[n].path, enumerated.val[m].path))

-----------------------------------------------------------------------------
(* Properties of the two block locators                                    *)

\* parse_nix_filesystems: every match of fs_regex with the first closing
\* brace at or after it (past the end of the text when there is none)
ParserSpans(t) ==
    LET starts == fs_find_iter(t, 1) IN
    { << starts[n],
         IF Find(t, <<"}">>, starts[n]) = 0 THEN Len(t) + 1
         ELSE Find(t, <<"}">>, starts[n]) >> : n \in 1..Len(starts) }

\* get_nix_disks_config: every marker found from pos on with the closing
\* brace of the first "};" after it; the scan stops at a marker with none
RECURSIVE WriterSpans(_, _)
WriterSpans(t, pos) ==
    LET absolute_pos == Find(t, Marker, pos) IN
    IF absolute_pos = 0 THEN {}
    ELSE LET close_pos == Find(t, BlockClose, absolute_pos) IN
         IF close_pos = 0 THEN {}
         ELSE { <<absolute_pos, close_pos>> } \cup WriterSpans(t, close_pos + 2)

\* C22: for every configuration text, the declaration spans that
\* parse_nix_filesystems examines, from the marker to the closing brace, are
\* the spans that get_nix_disks_config locates and removes: no stretch of
\* text is inside a block for one and outside it for the other.
C22_OneBlockLocator ==
    pc = "parsed" => ParserSpans(nix_config) = WriterSpans(nix_config, 1)

-----------------------------------------------------------------------------
(* Properties of the text around the declarations                          *)

\* the number of closing braces of a text
ClosingBraces(t) == Cardinality({ i \in 1..Len(t) : t[i] = "}" })

\* C23: the closing brace of the document is dropped once and added once:
\* the output of get_nix_disks_config ends with one closing brace and holds
\* as many closing braces outside declaration blocks as the input, also when
\* the text left after the removal of the blocks does not end with a closing
\* brace.
C23_ClosingBraceOnce ==
    (pc # "start" /\ generated.kind = "Ok") =>
        /\ generated.val[Len(generated.val)] = "}"
        /\ ClosingBraces(RemovePass(generated.val)) = ClosingBraces(RemovePass(nix_config))

\* the indexes of the text inside a located declaration, from the marker
\* through the ";" of its "};"
InsideSpans(t) ==
    UNION { span[1]..(span[2] + 1) : span \in WriterSpans(t, 1) }

\* the characters of the text at the indexes of S, in their order
Restrict(t, S) == [n \in 1..Cardinality(S) |-> t[Nth(S, n)]]

\* the characters outside every located declaration
Outside(t) == Restrict(t, (1..Len(t)) \ InsideSpans(t))

\* a text without its trailing whitespace and without one final closing brace
WithoutFinalBrace(u) ==
    LET solid == { i \in 1..Len(u) : ~IsWhitespace(u[i]) }
        last == IF solid = {} THEN 0 ELSE CHOOSE i \in solid : \A j \in solid : j <= i
    IN  IF last > 0 /\ u[last] = "}" THEN SubSeq(u, 1, last - 1)
        ELSE SubSeq(u, 1, last)

\* C24: the characters of T outside all located declarations, in their
\* order and minus only the trailing whitespace and one final closing brace,
\* are an unchanged prefix of get_nix_disks_config(T, D); what the operation
\* adds comes after that prefix.
C24_UnrelatedTextPreserved ==
    (pc # "start" /\ generated.kind = "Ok") =>
        LET unrelated == WithoutFinalBrace(Outside(nix_config)) IN
        /\ Len(unrelated) < Len(generated.val)
        /\ SubSeq(generated.val, 1, Len(unrelated)) = unrelated

\* C24 (witness): a text with a comment line before a declaration and a
\* comment after its closing brace is regenerated with a tree that has a
\* mount point, and the output is longer than the unrelated text
C24_Witness ==
    /\ pc = "generated"
    /\ nix_config = <<"{", NL>> \o OtherLine \o Block(DATA, UuidPath("A"))
                     \o <<"}", NL, SP, SP, "# end", NL>>
    /\ disks = DiskTree(<<DATA>>, <<>>, <<>>)
    /\ Outside(nix_config) = <<"{", NL>> \o OtherLine
                               \o <<SP, SP, NL, "}", NL, SP, SP, "# end", NL>>
    /\ Len(generated.val) > Len(Outside(nix_config)) + 20

-----------------------------------------------------------------------------
(* Properties of the removal of the missing partitions                     *)

\* the tree without the partitions that have the identity path of a
\* reported partition
WithoutIdentities(ds, reported) ==
    [i \in 1..Len(ds) |->
        [ds[i] EXCEPT !.partitions =
            SelectSeq(@, LAMBDA partition :
                \A m \in 1..Len(reported) :
                    reported[m].uuid_path # partition.uuid_path)]]

\* C25: the removal of the missing partitions selects by stable identity
\* path, as their detection does: "remove" deletes from the tree exactly the
\* partitions whose uuid_path is the uuid_path of a reported partition, and
\* never a partition that only has the device path of one.
C25_RemovalByIdentity ==
    [][ pc' = "removed" => disks' = WithoutIdentities(disks, missing.val) ]_vars

-----------------------------------------------------------------------------
(* Properties of the generated blocks                                      *)

\* the positions (disk, partition, mount point) of the tree whose mount
\* point is not critical
NewTriples(ds) ==
    { tr \in UNION { UNION { { <<d, q, k>> :
                                k \in 1..Len(ds[d].partitions[q].mount_points) } :
                            q \in 1..Len(ds[d].partitions) } :
                    d \in 1..Len(ds) } :
        ~is_critical_mount_point(ds[tr[1]].partitions[tr[2]].mount_points[tr[3]]) }

\* the declaration expected for a position of the tree
ExpectedBlock(ds, tr) ==
    LET partition == ds[tr[1]].partitions[tr[2]]
        mount_point == partition.mount_points[tr[3]]
        fs_type == IF partition.fs_type.some THEN partition.fs_type.val ELSE <<"auto">>
    IN  <<FS_WORD, QUOTE>> \o mount_point \o <<QUOTE, SP, "=", SP, "{", NL>>
        \o <<SP, SP, SP, SP, DEVICE_WORD, QUOTE>> \o partition.uuid_path \o <<QUOTE, ";", NL>>
        \o <<SP, SP, SP, SP, "fsType", SP, "=", SP, QUOTE>> \o fs_type \o <<QUOTE, ";", NL>>
        \o <<SP, SP, SP, SP, "options", SP, "=", SP>>
        \o get_filesystem_options(fs_type, mount_point) \o <<";", NL, SP, SP, "}", ";">>

Occurrences(pat, t) == Cardinality({ i \in 1..Len(t) : MatchAt(t, pat, i) })

\* the markers that the output carries over from the input: those of the
\* preserved blocks and those that the removal leaves in the text
CarriedMarkers(t) ==
    Cardinality(MarkerIndexes(Concat(PreservePass(t, 1, <<>>))))
    + Cardinality(MarkerIndexes(RemovePass(t)))

\* C26: get_nix_disks_config(T, D) emits exactly one new declaration for
\* each (disk, partition, mount point) of D whose mount point is not
\* critical, with the mount point as key, the partition's uuid_path as
\* device, its fs_type (or "auto") as fsType and the options of
\* get_filesystem_options; a partition with no mount points emits nothing
\* and no other new block is emitted.
C26_GeneratedBlocks ==
    (pc # "start" /\ generated.kind = "Ok") =>
        /\ \A tr \in NewTriples(disks) :
               Occurrences(ExpectedBlock(disks, tr), generated.val)
                 = Cardinality({ other \in NewTriples(disks) :
                                   ExpectedBlock(disks, other) = ExpectedBlock(disks, tr) })
        /\ Cardinality(MarkerIndexes(generated.val))
             = CarriedMarkers(nix_config) + Cardinality(NewTriples(disks))

\* C26 (witness): a tree with /boot and /data on an ext4 partition, a mount
\* point on a btrfs partition and one on a partition of unknown type, over a
\* text that declares /: three new blocks, one of them with fsType "auto"
C26_Witness ==
    /\ pc = "generated"
    /\ nix_config = <<"{", NL>> \o Block(ROOT, UuidPath("R")) \o <<"}", NL>>
    /\ disks = DiskTree(<<BOOT, DATA>>, <<<<"/", "media", "/", "b">>>>,
                        <<<<"/", "media", "/", "c">>>>)
    /\ Cardinality(NewTriples(disks)) = 3
    /\ Cardinality(MarkerIndexes(generated.val)) = 4
    /\ IsSubstring(<<"fsType", SP, "=", SP, QUOTE, "auto", QUOTE>>, generated.val)

-----------------------------------------------------------------------------
(* Properties of the order of the output                                   *)

\* the located declarations of the input with a critical key, by their start
CriticalStarts(t) ==
    { span[1] : span \in { sp \in WriterSpans(t, 1) :
                              KeyAt(t, sp[1]) \in CRITICAL_MOUNT_POINTS } }

CloseOf(t, start) == (CHOOSE span \in WriterSpans(t, 1) : span[1] = start)[2]

\* the preserved declarations as they are written back, in the order of the
\* input
ExpectedPreserved(t) ==
    Concat([n \in 1..Cardinality(CriticalStarts(t)) |->
              <<NL, SP, SP>>
              \o SubSeq(t, Nth(CriticalStarts(t), n),
                        CloseOf(t, Nth(CriticalStarts(t), n)) + 1)])

\* disk position, then partition position, then mount-point position
TripleBefore(a, b) ==
    \/ a[1] < b[1]
    \/ a[1] = b[1] /\ a[2] < b[2]
    \/ a[1] = b[1] /\ a[2] = b[2] /\ a[3] < b[3]

SortedTriples(ds) ==
    [n \in 1..Cardinality(NewTriples(ds)) |->
        CHOOSE tr \in NewTriples(ds) :
            Cardinality({ other \in NewTriples(ds) : TripleBefore(other, tr) }) = n - 1]

ExpectedGenerated(ds) ==
    Concat([n \in 1..Cardinality(NewTriples(ds)) |->
              <<NL, SP, SP>> \o ExpectedBlock(ds, SortedTriples(ds)[n])])

\* C27: in get_nix_disks_config(T, D) the preserved critical blocks come
\* first, in the order they have in T, then the generated blocks by disk
\* position in D, partition position in the disk and mount-point position in
\* the partition; the text depends on T and D only.
C27_OutputOrder ==
    (pc # "start" /\ generated.kind = "Ok") =>
        generated.val = WithoutFinalBrace(Outside(nix_config))
                        \o ExpectedPreserved(nix_config)
                        \o ExpectedGenerated(disks)
                        \o <<NL, NL, "}">>

\* C27 (witness): the text declares /boot and then /, the tree has two mount
\* points on the first partition and one on each of the others, and the
\* output holds the six blocks in that order
C27_Witness ==
    /\ pc = "generated"
    /\ nix_config = <<"{", NL>> \o Block(BOOT, UuidPath("E")) \o Block(ROOT, UuidPath("R"))
                     \o <<"}", NL>>
    /\ disks = DiskTree(<<DATA, <<"/", "media", "/", "x">>>>, <<<<"/", "media", "/", "b">>>>,
                        <<<<"/", "media", "/", "c">>>>)
    /\ LET at(key) == Find(generated.val, <<FS_WORD, QUOTE>> \o key \o <<QUOTE>>, 1) IN
       /\ 0 < at(BOOT) /\ at(BOOT) < at(ROOT) /\ at(ROOT) < at(DATA)
       /\ at(DATA) < at(<<"/", "media", "/", "x">>)
       /\ at(<<"/", "media", "/", "x">>) < at(<<"/", "media", "/", "b">>)
       /\ at(<<"/", "media", "/", "b">>) < at(<<"/", "media", "/", "c">>)

-----------------------------------------------------------------------------
(* Properties of the merge of the declarations                             *)

\* the declarations that the extraction meets, in the order of the text:
\* the key and the device reference of every match
Declarations(t) ==
    LET starts == fs_find_iter(t, 1) IN
    [n \in 1..Len(starts) |->
        BlockFields(SubSeq(t, starts[n], Find(t, <<"}">>, starts[n]))).val]

\* the declarations that resolve to the canonical path
DeclarationsOf(t, path) ==
    { n \in 1..Len(Declarations(t)) : ResolveDevice(Links, Declarations(t)[n].device) = path }

\* their keys in the order of the text, each at its first occurrence
KeysOf(t, path) ==
    LET first == { n \in DeclarationsOf(t, path) :
                     \A m \in DeclarationsOf(t, path) :
                         m < n => Declarations(t)[m].mount_point
                                    # Declarations(t)[n].mount_point }
    IN  [k \in 1..Cardinality(first) |-> Declarations(t)[Nth(first, k)].mount_point]

\* C28: when several declarations of a text resolve to one canonical device
\* path, parse_nix_filesystems returns a single Partition for that path: its
\* mount points are the keys of the declarations in text order without
\* duplicates, its identity path is the device reference of the first of
\* them, its size, filesystem type and label are unset; there are as many
\* partitions as distinct canonical paths.
C28_MergeByCanonicalPath ==
    (pc = "parsed" /\ parsed_in.kind = "Ok") =>
        LET decls == Declarations(nix_config)
            paths == { ResolveDevice(Links, decls[n].device) : n \in 1..Len(decls) }
        IN  /\ DOMAIN parsed_in.val = paths
            /\ \A path \in paths :
                   parsed_in.val[path] =
                       Partition(path, decls[Min(DeclarationsOf(nix_config, path))].device,
                                 KeysOf(nix_config, path), None, 0, None)

\* C28 (witness): /data is declared on a by-uuid link and /mnt on the device
\* the link resolves to, and the result is one Partition with both keys and
\* the link as its identity path
C28_Witness ==
    /\ pc = "parsed"
    /\ nix_config = <<"{", NL>> \o Block(DATA, UuidPath("A"))
                     \o Block(<<"/", "mnt">>, DevPath(<<"sd", "a", "1">>)) \o <<"}", NL>>
    /\ parsed_in.kind = "Ok"
    /\ DOMAIN parsed_in.val = { DevPath(<<"sd", "a", "1">>) }
    /\ parsed_in.val[DevPath(<<"sd", "a", "1">>)].mount_points = <<DATA, <<"/", "mnt">>>>
    /\ parsed_in.val[DevPath(<<"sd", "a", "1">>)].uuid_path = UuidPath("A")

-----------------------------------------------------------------------------
(* Properties of the scanning loops                                        *)

\* C29: for every finite text both scanning loops of get_nix_disks_config
\* end; a marker with no "};" after it stops the scan, every iteration of
\* the preservation pass moves its position forward and every iteration of
\* the removal pass makes the text strictly shorter.
C29_ScanTerminates ==
    /\ <>(pc = "scanned")
    /\ [][ (pc = "preserving" /\ pc' = "preserving") => scan_pos' > scan_pos ]_vars
    /\ [][ (pc = "removing" /\ pc' = "removing") =>
              Len(scan_config') < Len(scan_config) ]_vars

\* C29 (witness): the text declares / and then /data with no "};" after it;
\* both loops have ended, the first kept the block of /, the second removed
\* it and left the unterminated declaration in the text
C29_Witness ==
    /\ pc = "scanned"
    /\ nix_config = <<"{", NL>> \o Block(ROOT, UuidPath("R"))
                     \o Unterminated(DATA, UuidPath("A")) \o <<"}", NL>>
    /\ Len(scan_preserved) = 1
    /\ Len(scan_config) < Len(nix_config)
    /\ MarkerIndexes(scan_config) # {}
    /\ scan_config = RemovePass(nix_config)
    /\ scan_preserved = PreservePass(nix_config, 1, <<>>)

\* the rebuilds whose watcher runs: it has neither seen its status file nor
\* timed out
PendingRebuilds ==
    { i \in 1..Len(rebuilds) : rebuilds[i].phase = "watching" }

\* C30: while a rebuild started by a save is still pending, the "rebuilding"
\* banner is revealed, a second save made before the first rebuild completed
\* included, however the two watchers interleave.
C30_BannerWhilePending ==
    (window = "open" /\ PendingRebuilds # {}) => rebuild_banner

====
